---------------------------- MODULE Spec2Model ----------------------------
(***************************************************************************)
(* A model of the page-view style pipeline of the unclutter extension:     *)
(*                                                                         *)
(*   SpecDom  the DOM traversal of iterateDOM.js (iterateDOM, its two      *)
(*            callbacks fadeOut / pageViewTransition, unPatchDomTransform) *)
(*   SpecCss  the stylesheet rewriter getCssOverride with its four postcss *)
(*            plugins, run by the visitor loop of postcss               *)
(*                                                                         *)
(* Strings are sequences of atoms.  An atom stands for a piece of text     *)
(* that shares no character with a neighbouring atom, so that "first       *)
(* occurrence of a substring" on the text is "first occurrence of a        *)
(* subsequence" on the atoms.                                              *)
(***************************************************************************)
EXTENDS Integers, Sequences, FiniteSets, TLC

VARIABLES
    \* ---- the document (iterateDOM.js)
    dom,          \* the element tree under <body>: [parent, kind], ids in document order
    classList,    \* generated class ids added to each element (0 is <body>)
    nextId,       \* the digits Math.random() yields next
    styles,       \* the <style> elements of the document, in order
    theme,        \* the theme variable store
    \* ---- the closure of one iterateDOM call
    pc,           \* "idle" | "forEach" | "ready"
    paragraphs,   \* the NodeList iterated by forEach
    paraIdx,      \* index of the next paragraph of the forEach
    containerSelectors,
    overrideCssDeclarations,
    backgroundColors,
    seenNodes,
    called,       \* which of the two returned callbacks have run
    \* ---- one getCssOverride call
    cssUrl,          \* the stylesheet's URL
    conditionScale,  \* [num, den]
    parsed,          \* the node table as the parser made it from cssText
    ast,             \* the node table the plugins work on; node 1 is the root
    stack,           \* the visits in progress, innermost last
    cssPc,           \* "idle" | "walk" | "done" | "rejected"
    \* ---- a second getCssOverride call in progress at the same time
    suspended,       \* the call that is not running now: its six variables and its number
    call,            \* the number of the call that is running now: 1 | 2
    alone,           \* what each call returned when it ran with no other call in progress
    \* ---- the background script's message handler (events.ts)
    messages,        \* per message of a content script: [event, phase, fate, open,
                     \*   delivered, result]
    \* ---- the annotation listener of the page (annotationsListener.ts)
    annotations,     \* [listenerRef, resizeObserver, attached, observing, created,
                     \*  torn, timers, trailing, posts, msgs, processed]
    \* ---- the page view toggle (content.js)
    page             \* [inbox, pageview, patched, sidebars, toggles, errored]

domVars == <<dom, classList, nextId, styles, theme, pc, paragraphs, paraIdx,
             containerSelectors, overrideCssDeclarations, backgroundColors,
             seenNodes, called>>

cssVars == <<cssUrl, conditionScale, parsed, ast, stack, cssPc>>

\* what neither the traversal nor a single getCssOverride call writes
extVars == <<suspended, call, alone, messages, annotations, page>>

vars == <<domVars, cssVars, extVars>>

NoCall ==
    [cssUrl |-> <<>>, conditionScale |-> [num |-> 1, den |-> 1], parsed |-> <<>>,
     ast |-> <<>>, stack |-> <<>>, cssPc |-> "none", call |-> 0]

NoConcurrency == suspended = NoCall /\ call = 1 /\ alone = <<>>

NoMessages == messages = <<>>

\* lines 11 and 75: both module variables are undefined (0), nothing is attached,
\* no iframe is torn down, no throttle timer runs, nothing was posted or heard
NoAnnotations ==
    annotations = [listenerRef |-> 0, resizeObserver |-> 0, attached |-> {},
                   observing |-> {}, created |-> 0, torn |-> {}, timers |-> {},
                   trailing |-> {}, posts |-> 0, msgs |-> 0, processed |-> {}]

\* content.js: no togglePageView message was sent, the document is unpatched and
\* has neither the class pageview nor a sidebar iframe
NoPage ==
    page = [inbox |-> <<>>, pageview |-> FALSE, patched |-> FALSE, sidebars |-> 0,
            toggles |-> 0, errored |-> FALSE]

ExtIdle == NoConcurrency /\ NoMessages /\ NoAnnotations /\ NoPage

-----------------------------------------------------------------------------
(* Bounds *)

MaxElems == 4
MaxNodes == 3
MaxSamples == 2
MaxMessages == 3

-----------------------------------------------------------------------------
(* Strings *)

RECURSIVE SeqContains(_, _)
SeqContains(s, a) ==
    IF s = <<>> THEN FALSE
    ELSE IF Head(s) = a THEN TRUE ELSE SeqContains(Tail(s), a)

\* String.prototype.toLowerCase on one atom
LowerAtom(a) ==
    CASE a = "SideBar" -> "sidebar"
      [] a = "Header"  -> "header"
      [] a = "Main"    -> "main"
      [] a = "DIV"     -> "div"
      [] a = "P"       -> "p"
      [] a = "BODY"    -> "body"
      [] OTHER         -> a

toLowerCase(s) == [i \in 1..Len(s) |-> LowerAtom(s[i])]

-----------------------------------------------------------------------------
(* The document *)

Body == 0

Transparent == [r |-> 0, g |-> 0, b |-> 0, a |-> 0]
Light == [r |-> 250, g |-> 250, b |-> 250, a |-> 1]
Dark == [r |-> 30, g |-> 30, b |-> 30, a |-> 1]
White == [r |-> 255, g |-> 255, b |-> 255, a |-> 1]
\* rgb(230, 230, 230) has brightness 230, rgb(230, 230, 231) has 230.114
AtThreshold == [r |-> 230, g |-> 230, b |-> 230, a |-> 1]
JustAbove == [r |-> 230, g |-> 230, b |-> 231, a |-> 1]

\* What the page author wrote for an element, and what the browser computes for it.
Kinds == {"p", "p0", "div", "flex", "grid", "sidebar"}

Attrs(k) ==
    CASE k = "p" ->
           [tagName |-> "P", className |-> <<>>, id |-> <<>>, dataLanguage |-> FALSE,
            display |-> "block", flexDirection |-> "row",
            backgroundColor |-> Transparent, offsetHeight |-> 20]
      [] k = "p0" ->
           [tagName |-> "P", className |-> <<>>, id |-> <<>>, dataLanguage |-> FALSE,
            display |-> "block", flexDirection |-> "row",
            backgroundColor |-> Transparent, offsetHeight |-> 0]
      [] k = "div" ->
           [tagName |-> "DIV", className |-> <<"Main">>, id |-> <<"content">>,
            dataLanguage |-> FALSE, display |-> "block", flexDirection |-> "row",
            backgroundColor |-> Transparent, offsetHeight |-> 20]
      [] k = "flex" ->
           [tagName |-> "DIV", className |-> <<>>, id |-> <<>>, dataLanguage |-> FALSE,
            display |-> "flex", flexDirection |-> "row",
            backgroundColor |-> Light, offsetHeight |-> 20]
      [] k = "grid" ->
           [tagName |-> "DIV", className |-> <<"Main">>, id |-> <<>>,
            dataLanguage |-> FALSE, display |-> "grid", flexDirection |-> "row",
            backgroundColor |-> Dark, offsetHeight |-> 20]
      [] k = "sidebar" ->
           [tagName |-> "DIV", className |-> <<"left", "SideBar">>, id |-> <<>>,
            dataLanguage |-> FALSE, display |-> "flex", flexDirection |-> "row",
            backgroundColor |-> Dark, offsetHeight |-> 20]
      [] k = "column" ->
           [tagName |-> "DIV", className |-> <<>>, id |-> <<>>, dataLanguage |-> FALSE,
            display |-> "flex", flexDirection |-> "column",
            backgroundColor |-> Transparent, offsetHeight |-> 20]
      [] k = "inline-flex" ->
           [tagName |-> "DIV", className |-> <<>>, id |-> <<>>, dataLanguage |-> FALSE,
            display |-> "inline-flex", flexDirection |-> "row",
            backgroundColor |-> Transparent, offsetHeight |-> 20]
      [] k = "inline-grid" ->
           [tagName |-> "DIV", className |-> <<>>, id |-> <<>>, dataLanguage |-> FALSE,
            display |-> "inline-grid", flexDirection |-> "row-reverse",
            backgroundColor |-> Transparent, offsetHeight |-> 20]
      [] k = "span" ->
           [tagName |-> "SPAN", className |-> <<>>, id |-> <<>>, dataLanguage |-> FALSE,
            display |-> "inline", flexDirection |-> "row",
            backgroundColor |-> Transparent, offsetHeight |-> 20]

BodyAttrs ==
    [tagName |-> "BODY", className |-> <<>>, id |-> <<>>, dataLanguage |-> FALSE,
     display |-> "block", flexDirection |-> "row",
     backgroundColor |-> Transparent, offsetHeight |-> 20]

\* An element without a paragraph below it plays no part in the traversal, so the
\* trees drawn end in paragraphs (visible or of zero height); the elements with
\* children are containers, or a paragraph that holds another one (a <font> in
\* a <p>).
LeafKinds == {"p", "p0"}
InnerKinds == {"p", "div", "flex", "grid", "sidebar"}
IsLeaf(par, e) == \A c \in DOMAIN par : par[c] # e

Elems == 1..Len(dom.kind)
Node(e) == IF e = Body THEN BodyAttrs ELSE Attrs(dom.kind[e])
parentElement(e) == dom.parent[e]

\* e and the elements above it, <body> included
RECURSIVE AncestorsOrSelf(_, _)
AncestorsOrSelf(par, e) ==
    IF e = Body THEN {Body} ELSE {e} \cup AncestorsOrSelf(par, par[e])

\* ids are document order (pre-order): an element follows its parent, and opens
\* below the previous element or below one of that element's ancestors
IsDocumentOrder(par) ==
    /\ \A i \in DOMAIN par : par[i] < i
    /\ \A i \in DOMAIN par : i > 1 => par[i] \in AncestorsOrSelf(par, i - 1)

Trees(n) == {par \in [1..n -> 0..(n - 1)] : IsDocumentOrder(par)}

\* document.body.querySelectorAll(selector), for a selector that lists tag names
querySelectorAll(tags) ==
    LET hit(e) == Node(e).tagName \in tags
        RECURSIVE from(_)
        from(e) == IF e > Len(dom.kind) THEN <<>>
                   ELSE IF hit(e) THEN <<e>> \o from(e + 1) ELSE from(e + 1)
    IN from(1)

globalParagraphSelector == {"P", "FONT", "PRE"}

\* a NodeList is an object: it is truthy also when it is empty
Truthy(nodeList) == TRUE


-----------------------------------------------------------------------------
(* iterateDOM.js: classification, selectors, override rules *)

asideWordBlocklist == <<"header", "footer", "aside", "sidebar", "comment", "language">>

\* String.prototype.includes(word), the word being one atom
includes(s, word) == SeqContains(s, word)

_isAsideEquivalent(node) ==
    \/ node.tagName = "HEADER"
    \/ node.tagName = "FOOTER"
    \/ node.tagName = "ASIDE"
    \/ node.tagName = "CODE"
    \/ \E i \in 1..Len(asideWordBlocklist) :
          \/ includes(toLowerCase(node.className), asideWordBlocklist[i])
          \/ includes(toLowerCase(node.id), asideWordBlocklist[i])
    \/ node.dataLanguage

\* The selector "tag.container_<digits>[id='id']" for element e; digits is the
\* class the call adds to e.  childP marks the "<selector> > p" form of line 42.
_getNodeSelector(e, digits) ==
    [node |-> e,
     tag |-> LowerAtom(Node(e).tagName),
     containerId |-> digits,
     id |-> Node(e).id,
     childP |-> FALSE]

\* faulty variant: the flex direction not looked at
_getNodeOverrideStyles_AnyDirection(e, currentSelector, activeStyle) ==
    (IF activeStyle.display = "flex"
     THEN <<[selector |-> currentSelector, decls |-> <<"display: block">>]>>
     ELSE <<>>)
    \o
    (IF activeStyle.display = "grid"
     THEN <<[selector |-> currentSelector,
             decls |-> <<"display: block", "grid-template-columns: 1fr",
                         "grid-template-areas: none", "column-gap: 0">>]>>
     ELSE <<>>)

\* lines 171-193
_getNodeOverrideStyles(e, currentSelector, activeStyle) ==
    (IF activeStyle.display = "flex" /\ activeStyle.flexDirection = "row"
     THEN <<[selector |-> currentSelector, decls |-> <<"display: block">>]>>
     ELSE <<>>)
    \o
    (IF activeStyle.display = "grid"
     THEN <<[selector |-> currentSelector,
             decls |-> <<"display: block", "grid-template-columns: 1fr",
                         "grid-template-areas: none", "column-gap: 0">>]>>
     ELSE <<>>)

\* window.getComputedStyle(e)
getComputedStyle(e) == Node(e)

\* backgroundColor.includes("rgba(0, 0, 0, 0)")
IsFullyTransparent(c) == c = Transparent

\* faulty variant: the visited check of line 48 dropped
LoopSeesVisited_Dropped(seen, e) == FALSE

\* line 48: the walk stops at an element an earlier walk has visited
LoopSeesVisited(seen, e) == e \in seen

\* line 54: the walk stops at an aside-equivalent element
LoopStopsAtAside(e) == _isAsideEquivalent(Node(e))

\* The closure state of one iterateDOM call, with the part of the document it
\* writes: [sel, ovr, bg, seen, cls, next].
WithNewClass(st, e) ==
    [st EXCEPT !.cls = [@ EXCEPT ![e] = Append(@, st.next)], !.next = @ + 1]

\* lines 46-78, from currentElem upwards
RECURSIVE WalkUp(_, _)
WalkUp(st, currentElem) ==
    IF currentElem = Body THEN st
    ELSE IF LoopSeesVisited(st.seen, currentElem) THEN st
    ELSE
      LET st1 == [st EXCEPT !.seen = @ \cup {currentElem}] IN
      IF LoopStopsAtAside(currentElem) THEN st1
      ELSE
        LET currentSelector == _getNodeSelector(currentElem, st1.next)
            st2 == WithNewClass(st1, currentElem)
            activeStyle == getComputedStyle(currentElem)
            st3 == [st2 EXCEPT
                      !.sel = Append(@, currentSelector),
                      !.ovr = @ \o _getNodeOverrideStyles(currentElem, currentSelector,
                                                          activeStyle),
                      !.bg = IF ~IsFullyTransparent(activeStyle.backgroundColor)
                             THEN Append(@, activeStyle.backgroundColor) ELSE @]
        IN WalkUp(st3, parentElement(currentElem))

\* lines 38-79
iterateParents(st, elem) ==
    LET st1 == IF elem \notin st.seen
               THEN [WithNewClass(st, elem) EXCEPT
                       !.sel = Append(@, [_getNodeSelector(elem, st.next)
                                            EXCEPT !.childP = TRUE])]
               ELSE st
    IN WalkUp(st1, elem)

\* faulty variant: the height test of line 84 dropped
IsInvisible_Never(e) == FALSE

\* line 84
IsInvisible(e) == Node(e).offsetHeight = 0

-----------------------------------------------------------------------------
(* common.ts and theme.ts, which iterateDOM.js imports *)

GeneratedNames == {"lindy-font-size", "lindy-text-chain-override", "lindy-node-overrides"}

\* faulty variant: a style resource added without a look at the existing ones
createStylesheetText_Appends(doc, text, name) ==
    Append(doc, [name |-> name, css |-> text])

\* createStylesheetText(text, name): the style resource named name is created,
\* or replaced when it exists
createStylesheetText(doc, text, name) ==
    Append(SelectSeq(doc, LAMBDA s : s.name # name), [name |-> name, css |-> text])

getThemeValue(name) == theme[name]
setCssThemeVariable(th, name, value) == [th EXCEPT ![name] = value]

\* tinycolor(c).getBrightness() is (r * 299 + g * 587 + b * 114) / 1000, a
\* fraction: it is kept here in thousandths
getBrightness(c) == c.r * 299 + c.g * 587 + c.b * 114

BrightnessThreshold == 230

\* faulty variant: the threshold itself taken for too light
TooLight_AtThreshold(c) == getBrightness(c) >= BrightnessThreshold * 1000

\* line 257
TooLight(c) == getBrightness(c) > BrightnessThreshold * 1000

\* faulty variant: the active theme not looked at
IsAutoTheme_Always(themeName) == TRUE

\* line 265: !themeName || themeName === "auto"
IsAutoTheme(themeName) == themeName = "" \/ themeName = "auto"

_processBackgroundColors(textBackgroundColors) ==
    LET bodyColor == getThemeValue("originalBackground")
        picked == IF Len(textBackgroundColors) > 0
                  THEN textBackgroundColors[1] ELSE bodyColor
        pickedColor == IF TooLight(picked) THEN White ELSE picked
        th1 == setCssThemeVariable(theme, "originalBackground", pickedColor)
        themeName == getThemeValue("activeColorTheme")
    IN IF IsAutoTheme(themeName)
       THEN setCssThemeVariable(th1, "background", pickedColor)
       ELSE th1

_getTextElementChainOverrideStyle(selectors) ==
    [selectors |-> selectors, decls |-> "text-chain-reset"]

-----------------------------------------------------------------------------
(* The operations of iterateDOM.js *)

Closure == [sel |-> containerSelectors, ovr |-> overrideCssDeclarations,
            bg |-> backgroundColors, seen |-> seenNodes,
            cls |-> classList, next |-> nextId]

\* lines 24-37: the call, up to the forEach (one traversal per page-view activation)
IterateDOM ==
    /\ pc = "idle"
    /\ LET found == querySelectorAll(globalParagraphSelector) IN
       paragraphs' = IF ~Truthy(found) THEN querySelectorAll({"DIV", "SPAN"}) ELSE found
    /\ containerSelectors' = <<>>
    /\ overrideCssDeclarations' = <<>>
    /\ backgroundColors' = <<>>
    /\ seenNodes' = {}
    /\ paraIdx' = 1
    /\ pc' = "forEach"
    /\ UNCHANGED <<dom, classList, nextId, styles, theme, called>>
    /\ UNCHANGED <<cssVars, extVars>>

\* lines 81-89: the forEach callback on one paragraph
ForEachParagraph ==
    /\ pc = "forEach"
    /\ paraIdx <= Len(paragraphs)
    /\ LET elem == paragraphs[paraIdx]
           st == IF IsInvisible(elem) THEN Closure
                 ELSE iterateParents(Closure, parentElement(elem))
       IN /\ containerSelectors' = st.sel
          /\ overrideCssDeclarations' = st.ovr
          /\ backgroundColors' = st.bg
          /\ seenNodes' = st.seen
          /\ classList' = st.cls
          /\ nextId' = st.next
    /\ paraIdx' = paraIdx + 1
    /\ UNCHANGED <<dom, styles, theme, pc, paragraphs, called>>
    /\ UNCHANGED <<cssVars, extVars>>

\* line 112: iterateDOM returns its two callbacks
ReturnCallbacks ==
    /\ pc = "forEach"
    /\ paraIdx > Len(paragraphs)
    /\ pc' = "ready"
    /\ UNCHANGED <<dom, classList, nextId, styles, theme, paragraphs, paraIdx,
                   containerSelectors, overrideCssDeclarations, backgroundColors,
                   seenNodes, called>>
    /\ UNCHANGED <<cssVars, extVars>>

\* lines 91-93
FadeOut ==
    /\ pc = "ready"
    /\ theme' = _processBackgroundColors(backgroundColors)
    /\ called' = called \cup {"fadeOut"}
    /\ UNCHANGED <<dom, classList, nextId, styles, pc, paragraphs, paraIdx,
                   containerSelectors, overrideCssDeclarations, backgroundColors,
                   seenNodes>>
    /\ UNCHANGED <<cssVars, extVars>>

\* lines 95-110
PageViewTransition ==
    /\ pc = "ready"
    /\ styles' = createStylesheetText(
                    createStylesheetText(
                       styles,
                       _getTextElementChainOverrideStyle(containerSelectors),
                       "lindy-text-chain-override"),
                    overrideCssDeclarations,
                    "lindy-node-overrides")
    /\ called' = called \cup {"pageViewTransition"}
    /\ UNCHANGED <<dom, classList, nextId, theme, pc, paragraphs, paraIdx,
                   containerSelectors, overrideCssDeclarations, backgroundColors,
                   seenNodes>>
    /\ UNCHANGED <<cssVars, extVars>>

\* faulty variant: querySelector for querySelectorAll, the first match removed
UnPatchDomTransform_FirstOnly ==
    /\ pc \in {"idle", "ready"}
    /\ LET hits == {i \in DOMAIN styles : styles[i].name \in GeneratedNames}
           first == IF hits = {} THEN 0 ELSE CHOOSE i \in hits : \A j \in hits : i <= j
       IN styles' = [i \in 1..(Len(styles) - (IF first = 0 THEN 0 ELSE 1)) |->
                       IF first = 0 \/ i < first THEN styles[i] ELSE styles[i + 1]]
    /\ UNCHANGED <<dom, classList, nextId, theme, pc, paragraphs, paraIdx,
                   containerSelectors, overrideCssDeclarations, backgroundColors,
                   seenNodes, called>>
    /\ UNCHANGED <<cssVars, extVars>>

\* lines 116-122
UnPatchDomTransform ==
    /\ pc \in {"idle", "ready"}
    /\ styles' = SelectSeq(styles, LAMBDA s : s.name \notin GeneratedNames)
    /\ UNCHANGED <<dom, classList, nextId, theme, pc, paragraphs, paraIdx,
                   containerSelectors, overrideCssDeclarations, backgroundColors,
                   seenNodes, called>>
    /\ UNCHANGED <<cssVars, extVars>>

PageStyle == [name |-> "page", css |-> <<>>]

InitDom ==
    /\ \E n \in 1..MaxElems :
         \E par \in Trees(n) :
           \E kinds \in [1..n -> Kinds] :
              /\ \A e \in 1..n : kinds[e] \in (IF IsLeaf(par, e) THEN LeafKinds
                                                                ELSE InnerKinds)
              /\ dom = [parent |-> par, kind |-> kinds]
              /\ classList = [e \in 0..n |-> <<>>]
    /\ nextId = 1
    /\ styles = <<PageStyle>>
    /\ theme = [originalBackground |-> Dark, background |-> Dark,
                activeColorTheme |-> "auto"]
    /\ pc = "idle"
    /\ paragraphs = <<>>
    /\ paraIdx = 1
    /\ containerSelectors = <<>>
    /\ overrideCssDeclarations = <<>>
    /\ backgroundColors = <<>>
    /\ seenNodes = {}
    /\ called = {}
    /\ cssUrl = <<>>
    /\ conditionScale = [num |-> 1, den |-> 1]
    /\ parsed = <<>>
    /\ ast = <<>>
    /\ stack = <<>>
    /\ cssPc = "idle"
    /\ ExtIdle

NextDom ==
    \/ IterateDOM
    \/ ForEachParagraph
    \/ ReturnCallbacks
    \/ FadeOut
    \/ PageViewTransition
    \/ UnPatchDomTransform

SpecDom == InitDom /\ [][NextDom]_vars

-----------------------------------------------------------------------------
(* The traversal over chains of containers of every computed display value *)

StyleKinds == InnerKinds \cup {"column", "inline-flex", "inline-grid"}
MaxChain == 2

InitStyles ==
    /\ \E n \in 1..MaxChain :
         \E kinds \in [1..n -> StyleKinds] :
            /\ dom = [parent |-> [e \in 1..(n + 1) |-> e - 1],
                      kind |-> kinds \o <<"p">>]
            /\ classList = [e \in 0..(n + 1) |-> <<>>]
    /\ nextId = 1
    /\ styles = <<PageStyle>>
    /\ theme = [originalBackground |-> Dark, background |-> Dark,
                activeColorTheme |-> "auto"]
    /\ pc = "idle"
    /\ paragraphs = <<>>
    /\ paraIdx = 1
    /\ containerSelectors = <<>>
    /\ overrideCssDeclarations = <<>>
    /\ backgroundColors = <<>>
    /\ seenNodes = {}
    /\ called = {}
    /\ cssUrl = <<>>
    /\ conditionScale = [num |-> 1, den |-> 1]
    /\ parsed = <<>>
    /\ ast = <<>>
    /\ stack = <<>>
    /\ cssPc = "idle"
    /\ ExtIdle

SpecStyles == InitStyles /\ [][NextDom]_vars

\* the rules the claim gives for selector S and a computed style
OverrideRulesFor(S, display, flexDirection) ==
    IF display = "flex" /\ flexDirection = "row"
    THEN <<[selector |-> S, decls |-> <<"display: block">>]>>
    ELSE IF display = "grid"
    THEN <<[selector |-> S,
            decls |-> <<"display: block", "grid-template-columns: 1fr",
                        "grid-template-areas: none", "column-gap: 0">>]>>
    ELSE <<>>

\* C13: for every container selector S of an element, the override rules with
\* selector S are exactly 'S { display: block; }' when the element is flex with
\* direction row, exactly the one grid rule when it is grid, and none for every
\* other computed display; and every override rule belongs to such a selector.
C13_OverrideRules ==
    /\ \A i \in DOMAIN containerSelectors :
          LET S == containerSelectors[i]
              style == Node(S.node)
          IN ~S.childP =>
                SelectSeq(overrideCssDeclarations, LAMBDA r : r.selector = S)
                   = OverrideRulesFor(S, style.display, style.flexDirection)
    /\ \A j \in DOMAIN overrideCssDeclarations :
          \E i \in DOMAIN containerSelectors :
             /\ ~containerSelectors[i].childP
             /\ overrideCssDeclarations[j].selector = containerSelectors[i]

\* a flex-row container with its one rule above a flex-column container with none
C13_Witness ==
    /\ pc = "ready"
    /\ dom.kind = <<"flex", "column", "p">>
    /\ Len(containerSelectors) = 3
    /\ Len(overrideCssDeclarations) = 1
    /\ overrideCssDeclarations[1].selector.node = 1
    /\ overrideCssDeclarations[1].decls = <<"display: block">>

-----------------------------------------------------------------------------
(* The background colour resolver on its own: fadeOut() of a finished traversal,
   over the samples and the theme variables a page can give it *)

SampleColors == {Light, Dark, AtThreshold, JustAbove}
BodyColors == {Light, Dark, AtThreshold}
ThemeNames == {"", "auto", "dark"}

InitBg ==
    /\ dom = [parent |-> <<>>, kind |-> <<>>]
    /\ classList = [e \in {Body} |-> <<>>]
    /\ nextId = 1
    /\ styles = <<PageStyle>>
    /\ \E n \in 0..MaxSamples : backgroundColors \in [1..n -> SampleColors]
    /\ \E orig \in BodyColors, bg \in {Dark, White}, name \in ThemeNames :
          theme = [originalBackground |-> orig, background |-> bg,
                   activeColorTheme |-> name]
    /\ pc = "ready"
    /\ paragraphs = <<>>
    /\ paraIdx = 1
    /\ containerSelectors = <<>>
    /\ overrideCssDeclarations = <<>>
    /\ seenNodes = {}
    /\ called = {}
    /\ cssUrl = <<>>
    /\ conditionScale = [num |-> 1, den |-> 1]
    /\ parsed = <<>>
    /\ ast = <<>>
    /\ stack = <<>>
    /\ cssPc = "idle"
    /\ ExtIdle

NextBg == FadeOut

SpecBg == InitBg /\ [][NextBg]_vars

\* the picked colour of lines 249-260, with the brightness written out
ResolvedColor(samples, bodyColor) ==
    LET picked == IF samples # <<>> THEN Head(samples) ELSE bodyColor
    IN IF (picked.r * 299 + picked.g * 587 + picked.b * 114) > 230 * 1000
       THEN White ELSE picked

\* C11: fadeOut stores in the original-background variable the first sample, or
\* the recorded body colour when there is no sample, replaced by white when its
\* brightness is strictly greater than 230.
C11_ResolvedColor ==
    [][FadeOut => theme'.originalBackground
                     = ResolvedColor(backgroundColors, theme.originalBackground)]_vars

\* a sample at the threshold is kept, and one just above it has given white
C11_Witness ==
    /\ "fadeOut" \in called
    /\ \/ backgroundColors = <<AtThreshold, Light>> /\ theme.originalBackground = AtThreshold
       \/ backgroundColors = <<JustAbove>> /\ theme.originalBackground = White

\* C12: fadeOut sets the active background variable to the resolved colour when
\* the active colour theme is unset or "auto", and leaves it as it was when an
\* explicit colour theme is active.
C12_ActiveBackground ==
    [][FadeOut =>
         theme'.background =
            IF theme.activeColorTheme \in {"", "auto"}
            THEN ResolvedColor(backgroundColors, theme.originalBackground)
            ELSE theme.background]_vars

\* fadeOut has run under an explicit theme and the active background differs
\* from the resolved colour
C12_Witness ==
    /\ "fadeOut" \in called
    /\ theme.activeColorTheme = "dark"
    /\ theme.background # theme.originalBackground


-----------------------------------------------------------------------------
(* Claims about the DOM traversal *)

BareSelectorsOf(sels, e) == {i \in DOMAIN sels : sels[i].node = e /\ ~sels[i].childP}
ChildPSelectorsOf(sels, e) == {i \in DOMAIN sels : sels[i].node = e /\ sels[i].childP}
OverridesOf(e) ==
    {i \in DOMAIN overrideCssDeclarations : overrideCssDeclarations[i].selector.node = e}

NoGeneratedStyles == \A i \in DOMAIN styles : styles[i].name \notin GeneratedNames
NoGeneratedClasses == \A e \in DOMAIN classList : classList[e] = <<>>

VisibleParagraphs ==
    {e \in Elems : Node(e).tagName \in globalParagraphSelector /\ ~IsInvisible(e)}

IsAside(e) == e # Body /\ _isAsideEquivalent(Node(e))

\* C1: after iterateDOM, both callbacks and then unPatchDomTransform, the document
\* holds no style element of the three generated names and no element carries a
\* generated container_<digits> class.
C1_RoundTrip ==
    [][(UnPatchDomTransform /\ called = {"fadeOut", "pageViewTransition"})
          => (NoGeneratedStyles' /\ NoGeneratedClasses')]_vars

\* the part of C1 that the code keeps: no generated style element is left
C1_StylesRemoved ==
    [][UnPatchDomTransform => NoGeneratedStyles']_vars

\* C2: an aside-equivalent element never gets a selector in containerSelectors nor
\* a generated class, its background is never sampled, and a walk that reaches it
\* does not go on to its parent.
C2_AsideUntouched ==
    [][\A e \in Elems :
          IsAside(e) =>
            /\ \A i \in DOMAIN containerSelectors' : containerSelectors'[i].node # e
            /\ classList'[e] = <<>>
            /\ e \in seenNodes' \ seenNodes
                  => parentElement(e) \notin seenNodes' \ seenNodes
            /\ Len(backgroundColors') =
                 Cardinality({i \in DOMAIN containerSelectors' :
                                 /\ ~containerSelectors'[i].childP
                                 /\ ~IsFullyTransparent(
                                       Node(containerSelectors'[i].node).backgroundColor)})
      ]_vars

\* what holds of C2 on the code: no container selector, no background sample, and
\* no walk above the element
C2_AsideNotWalked ==
    [][\A e \in Elems :
          IsAside(e) =>
            /\ BareSelectorsOf(containerSelectors', e) = {}
            /\ Cardinality(ChildPSelectorsOf(containerSelectors', e)) = Len(classList'[e])
            /\ e \in seenNodes' \ seenNodes
                  => parentElement(e) \notin seenNodes' \ seenNodes
            /\ Len(backgroundColors') =
                 Cardinality({i \in DOMAIN containerSelectors' :
                                 /\ ~containerSelectors'[i].childP
                                 /\ ~IsAside(containerSelectors'[i].node)
                                 /\ ~IsFullyTransparent(
                                       Node(containerSelectors'[i].node).backgroundColor)})
      ]_vars

StylesNamed(doc, name) == {i \in DOMAIN doc : doc[i].name = name}

\* C14: in every reachable state the document holds at most one style resource
\* named lindy-text-chain-override, at most one named lindy-node-overrides and at
\* most one named lindy-font-size, also after pageViewTransition has run again
\* with no unPatchDomTransform in between.
C14_OneResourcePerName ==
    \A name \in {"lindy-text-chain-override", "lindy-node-overrides", "lindy-font-size"} :
       Cardinality(StylesNamed(styles, name)) <= 1

\* pageViewTransition has run and both of its resources are in the document
C14_Witness ==
    /\ "pageViewTransition" \in called
    /\ Cardinality(StylesNamed(styles, "lindy-text-chain-override")) = 1
    /\ Cardinality(StylesNamed(styles, "lindy-node-overrides")) = 1
    /\ containerSelectors # <<>>

\* C15: unPatchDomTransform, in whatever state it is called (before a traversal,
\* after one, after either callback, after itself), leaves no style resource of
\* the three generated names, keeps every other style resource, and touches
\* nothing of the traversal's own state.
C15_UnPatchComplete ==
    [][UnPatchDomTransform =>
         /\ \A name \in {"lindy-text-chain-override", "lindy-node-overrides",
                          "lindy-font-size"} : StylesNamed(styles', name) = {}
         /\ styles' = SelectSeq(styles, LAMBDA r : r.name = "page")
         /\ UNCHANGED <<containerSelectors, overrideCssDeclarations,
                        backgroundColors, seenNodes, called, pc>>]_vars

\* unPatchDomTransform has run after pageViewTransition
C15_Witness ==
    /\ "pageViewTransition" \in called
    /\ pc = "ready"
    /\ styles = <<PageStyle>>

\* the elements from e up to, excluding, a: the part of a chain below a
RECURSIVE ChainBelow(_, _)
ChainBelow(e, a) ==
    IF e = a \/ e = Body THEN {} ELSE {e} \cup ChainBelow(parentElement(e), a)

\* e is on the chain of a visible paragraph, with no aside-equivalent element
\* below it on that chain, and is not aside-equivalent itself
OnTextChain(e) ==
    /\ e # Body
    /\ ~IsAside(e)
    /\ \E q \in VisibleParagraphs :
          /\ e \in AncestorsOrSelf(dom.parent, parentElement(q))
          /\ \A x \in ChainBelow(parentElement(q), e) : ~IsAside(x)

HasLayoutHazard(e) ==
    \/ Node(e).display = "flex" /\ Node(e).flexDirection = "row"
    \/ Node(e).display = "grid"

C20_BodyNoContainer ==
    /\ classList[Body] = <<>>
    /\ \A i \in DOMAIN containerSelectors : containerSelectors[i].node # Body
    /\ Body \notin seenNodes
    /\ OverridesOf(Body) = {}

\* e is the parent or an ancestor of a paragraph-like element of non-zero height
AboveTallParagraph(e) ==
    \E q \in Elems :
       /\ Node(q).tagName \in globalParagraphSelector
       /\ Node(q).offsetHeight # 0
       /\ e \in AncestorsOrSelf(dom.parent, parentElement(q))

\* C22: an element gets a generated class, a selector, an override rule or a
\* background sample only if it is the parent or an ancestor of a paragraph-like
\* element of non-zero height; the elements that are above zero-height paragraphs
\* only are left as they were.
C22_ZeroHeightSkipped ==
    /\ \A e \in Elems \cup {Body} :
          ~AboveTallParagraph(e)
             => /\ classList[e] = <<>>
                /\ \A i \in DOMAIN containerSelectors : containerSelectors[i].node # e
                /\ OverridesOf(e) = {}
                /\ e \notin seenNodes
    /\ \A i \in DOMAIN backgroundColors :
          \E e \in Elems : /\ AboveTallParagraph(e)
                           /\ Node(e).backgroundColor = backgroundColors[i]
    /\ Len(backgroundColors)
          <= Cardinality({e \in Elems : AboveTallParagraph(e)
                                         /\ ~IsFullyTransparent(Node(e).backgroundColor)})

\* the traversal is over on a page with a coloured container above a visible
\* paragraph, which was sampled, and a coloured container with a layout hazard
\* above a zero-height paragraph only
C22_Witness ==
    /\ pc = "ready"
    /\ backgroundColors # <<>>
    /\ \E e \in Elems :
          /\ ~AboveTallParagraph(e)
          /\ ~IsLeaf(dom.parent, e)
          /\ HasLayoutHazard(e)
          /\ ~IsAside(e)
          /\ ~IsFullyTransparent(Node(e).backgroundColor)

\* the container selectors of the elements with a colour of their own, in the
\* order in which the traversal pushed them
SampledSelectors ==
    SelectSeq(containerSelectors,
              LAMBDA sel : ~sel.childP /\ Node(sel.node).backgroundColor # Transparent)

Sampled == {SampledSelectors[i].node : i \in DOMAIN SampledSelectors}
SamplePosition(e) == CHOOSE i \in DOMAIN SampledSelectors : SampledSelectors[i].node = e

\* the backgroundColors are the colours of the sampled elements, in that order
SamplesFollowSelectors ==
    /\ Len(backgroundColors) = Len(SampledSelectors)
    /\ \A i \in DOMAIN backgroundColors :
          backgroundColors[i] = Node(SampledSelectors[i].node).backgroundColor

StrictlyBelow(d, a) == d # a /\ a \in AncestorsOrSelf(dom.parent, d)

\* C23 as stated: of two sampled elements one below the other, the colour of the
\* lower one comes first in backgroundColors.
C23_NearestFirst ==
    /\ SamplesFollowSelectors
    /\ \A d, a \in Sampled :
          StrictlyBelow(d, a) => SamplePosition(d) < SamplePosition(a)

\* the visible paragraphs whose walk can reach a: no aside-equivalent element lies
\* below a on their chain
ReachedFrom(a) ==
    {q \in VisibleParagraphs :
        /\ a \in AncestorsOrSelf(dom.parent, parentElement(q))
        /\ \A x \in ChainBelow(parentElement(q), a) : ~IsAside(x)}

FirstReachedFrom(a) == CHOOSE q \in ReachedFrom(a) : \A r \in ReachedFrom(a) : q <= r

\* what the traversal does keep: the samples are in the order of the first visit.
\* Each sampled element is visited by the walk of the first visible paragraph, in
\* document order, that reaches it; of two sampled elements one below the other,
\* the colour of the lower one comes first exactly when that paragraph lies below
\* the lower one too, and otherwise the colour of the outer one comes first.
SamplesInFirstVisitOrder ==
    /\ SamplesFollowSelectors
    /\ \A e \in Sampled : Cardinality({i \in DOMAIN SampledSelectors :
                                          SampledSelectors[i].node = e}) = 1
    /\ \A d, a \in Sampled :
          StrictlyBelow(d, a)
             => (SamplePosition(d) < SamplePosition(a)
                    <=> d \in AncestorsOrSelf(dom.parent,
                                              parentElement(FirstReachedFrom(a))))

-----------------------------------------------------------------------------
(* JavaScript strings and URLs, on atoms *)

Digits == <<"0", "1", "2", "3", "4", "5", "6", "7", "8", "9">>
IsDigit(a) == \E d \in 1..10 : Digits[d] = a
DigitValue(a) == (CHOOSE d \in 1..10 : Digits[d] = a) - 1

\* parseInt of a run of digits
RECURSIVE parseInt(_)
parseInt(run) ==
    IF run = <<>> THEN 0
    ELSE 10 * parseInt(SubSeq(run, 1, Len(run) - 1)) + DigitValue(run[Len(run)])

\* Number.prototype.toString of a natural number
RECURSIVE toString(_)
toString(n) ==
    IF n < 10 THEN <<Digits[n + 1]>>
    ELSE toString(n \div 10) \o <<Digits[(n % 10) + 1]>>

\* Math.round(scale * n) for n >= 0: halves round up
RoundScaled(scale, n) == (2 * scale.num * n + scale.den) \div (2 * scale.den)

\* String.prototype.indexOf(pat), 0 when pat does not occur
IndexOf(s, pat) ==
    LET hits == {i \in 1..(Len(s) - Len(pat) + 1) : SubSeq(s, i, i + Len(pat) - 1) = pat}
    IN IF hits = {} THEN 0 ELSE CHOOSE i \in hits : \A j \in hits : i <= j

\* String.prototype.replace(pat, rep) with a string pattern: the first occurrence only
replace(s, pat, rep) ==
    LET i == IndexOf(s, pat)
    IN IF i = 0 THEN s
       ELSE SubSeq(s, 1, i - 1) \o rep \o SubSeq(s, i + Len(pat), Len(s))

startsWith(s, prefix) ==
    Len(s) >= Len(prefix) /\ SubSeq(s, 1, Len(prefix)) = prefix

\* matchAll(/([0-9]+)/g): the maximal runs of digits, in order
RECURSIVE DigitRuns(_, _)
DigitRuns(s, run) ==
    IF s = <<>> THEN (IF run = <<>> THEN <<>> ELSE <<run>>)
    ELSE IF IsDigit(Head(s)) THEN DigitRuns(Tail(s), Append(run, Head(s)))
    ELSE (IF run = <<>> THEN <<>> ELSE <<run>>) \o DigitRuns(Tail(s), <<>>)

\* the path segments of a run of atoms: the pieces between the "/" atoms
RECURSIVE Segments(_, _)
Segments(s, seg) ==
    IF s = <<>> THEN <<seg>>
    ELSE IF Head(s) = "/" THEN <<seg>> \o Segments(Tail(s), <<>>)
    ELSE Segments(Tail(s), Append(seg, Head(s)))

\* ".." leaves a directory, "." stays
RECURSIVE RemoveDots(_, _)
RemoveDots(segs, out) ==
    IF segs = <<>> THEN out
    ELSE IF Head(segs) = <<"..">>
         THEN RemoveDots(Tail(segs), IF out = <<>> THEN out ELSE SubSeq(out, 1, Len(out) - 1))
    ELSE IF Head(segs) = <<".">> THEN RemoveDots(Tail(segs), out)
    ELSE RemoveDots(Tail(segs), Append(out, Head(segs)))

RECURSIVE JoinPath(_)
JoinPath(segs) ==
    IF segs = <<>> THEN <<>> ELSE <<"/">> \o Head(segs) \o JoinPath(Tail(segs))

Scheme == <<"https:", "/", "/">>
IsAbsoluteUrl(u) == startsWith(u, Scheme)

\* new URL(url, base) throws a TypeError: a host that does not parse ("//[..."),
\* or a relative reference against a base that is no absolute URL
UrlThrows(url, base) ==
    \/ startsWith(url, <<"/", "/", "[">>)
    \/ ~IsAbsoluteUrl(base) /\ ~IsAbsoluteUrl(url) /\ ~startsWith(url, <<"data:">>)

\* new URL(url, base).href for an absolute https base
ResolveUrl(url, base) ==
    LET origin == SubSeq(base, 1, 4)
        basePath == Segments(SubSeq(base, 6, Len(base)), <<>>)
        baseDir == SubSeq(basePath, 1, Len(basePath) - 1)
    IN IF IsAbsoluteUrl(url) \/ startsWith(url, <<"data:">>) THEN url
       ELSE IF url = <<>> THEN base
       ELSE IF Head(url) = "#" THEN base \o url
       ELSE IF Head(url) = "/"
            THEN origin \o JoinPath(RemoveDots(Segments(Tail(url), <<>>), <<>>))
       ELSE origin \o JoinPath(RemoveDots(baseDir \o Segments(url, <<>>), <<>>))


-----------------------------------------------------------------------------
(* The postcss node table *)

Root == 1

NewNode(type, parent) ==
    [type |-> type, parent |-> parent, name |-> "", params |-> <<>>, selector |-> "",
     prop |-> <<>>, value |-> <<>>, important |-> FALSE, nodes |-> <<>>,
     isClean |-> FALSE, alreadyProcessed |-> FALSE]

RECURSIVE NodeAndAbove(_, _)
NodeAndAbove(a, n) == IF n = 0 THEN {} ELSE {n} \cup NodeAndAbove(a, a[n].parent)

\* Node.markDirty: a clean node becomes dirty, with every node above it
markDirty(a, n) ==
    IF a[n].isClean
    THEN [m \in DOMAIN a |->
            IF m \in NodeAndAbove(a, n) THEN [a[m] EXCEPT !.isClean = FALSE] ELSE a[m]]
    ELSE a

\* The set trap of the node proxy: an assignment of the value the property already
\* has changes nothing; any other assignment to params, prop or value marks dirty.
SetParams(a, n, v) ==
    IF a[n].params = v THEN a ELSE markDirty([a EXCEPT ![n].params = v], n)
SetValue(a, n, v) ==
    IF a[n].value = v THEN a ELSE markDirty([a EXCEPT ![n].value = v], n)
SetProp(a, n, v) ==
    IF a[n].prop = v THEN a ELSE markDirty([a EXCEPT ![n].prop = v], n)
\* faulty variant: the mark of lines 54 and 92 is not set
SetAlreadyProcessed_Forgets(a, n) == a

\* alreadyProcessed is no property postcss knows: set, nothing marked
SetAlreadyProcessed(a, n) == [a EXCEPT ![n].alreadyProcessed = TRUE]

\* Container.append(child): the child is new (dirty), the container is marked dirty
append(a, parent, child) ==
    LET id == Len(a) + 1
        a1 == Append(a, [child EXCEPT !.parent = parent])
    IN markDirty([a1 EXCEPT ![parent].nodes = Append(@, id)], parent)

-----------------------------------------------------------------------------
(* The four plugins of getCssOverride *)

\* lines 42-51: each match replaces the first occurrence of its digits in the
\* condition as rewritten so far
RECURSIVE ScaleMatches(_, _, _)
ScaleMatches(condition, matches, scale) ==
    IF matches = <<>> THEN condition
    ELSE LET oldCount == parseInt(Head(matches))
             newCount == RoundScaled(scale, oldCount)
         IN ScaleMatches(replace(condition, toString(oldCount), toString(newCount)),
                         Tail(matches), scale)

ScaleCondition(params, scale) == ScaleMatches(params, DigitRuns(params, <<>>), scale)

\* faulty variant: the alreadyProcessed check of line 38 dropped
ScaleSkips_Never(node) == FALSE

\* line 38
ScaleSkips(node) == node.alreadyProcessed

\* lines 35-56: scaleBreakpointsPlugin.AtRule
scaleBreakpoints_AtRule(a, n, scale) ==
    IF a[n].name = "media"
    THEN IF ScaleSkips(a[n]) THEN a
         ELSE SetAlreadyProcessed(SetParams(a, n, ScaleCondition(a[n].params, scale)), n)
    ELSE a

Undefined == <<"undefined">>

\* the pieces of s that end with a ")" each: the matches of /"?'?([^\)]*?)"?'?\)/g
RECURSIVE ClosedPieces(_, _)
ClosedPieces(s, piece) ==
    IF s = <<>> THEN <<>>
    ELSE IF Head(s) = ")" THEN <<Append(piece, ")")>> \o ClosedPieces(Tail(s), <<>>)
    ELSE ClosedPieces(Tail(s), Append(piece, Head(s)))

\* line 66: match(...)?.[1], the second match of a global regular expression
ImportUrl(params) ==
    LET matches == ClosedPieces(params, <<>>)
    IN IF Len(matches) >= 2 THEN matches[2] ELSE Undefined

\* lines 64-70: urlRewritePlugin.AtRule
urlRewrite_AtRule(a, n, baseUrl) ==
    IF a[n].name = "import"
    THEN LET url == ImportUrl(a[n].params)
             href == ResolveUrl(url, baseUrl)
         IN SetParams(a, n, replace(a[n].params, url, href))
    ELSE a

\* line 67 throws
urlRewrite_AtRuleThrows(a, n, baseUrl) ==
    a[n].name = "import" /\ UrlThrows(ImportUrl(a[n].params), baseUrl)

\* the negative lookahead (?!"?'?(?:data:|#|https?:\/\/)) at the atoms after "url("
UrlExcluded(rest) ==
    LET at(r) == \/ startsWith(r, <<"data:">>)
                 \/ startsWith(r, <<"#">>)
                 \/ startsWith(r, Scheme)
    IN at(rest) \/ (rest # <<>> /\ Head(rest) = "dq" /\ at(Tail(rest)))

\* line 83-85: the group of every match of
\* /url\((?!"?'?(?:data:|#|https?:\/\/))"?'?([^\)]*?)"?'?\)/g, in order
RECURSIVE UrlMatches(_)
UrlMatches(v) ==
    IF v = <<>> THEN <<>>
    ELSE IF Head(v) = "url(" /\ ~UrlExcluded(Tail(v)) /\ SeqContains(Tail(v), ")")
    THEN LET rest == Tail(v)
             body == IF Head(rest) = "dq" THEN Tail(rest) ELSE rest
             close == IndexOf(body, <<")">>)
             inner == SubSeq(body, 1, close - 1)
             group == IF inner # <<>> /\ inner[Len(inner)] = "dq"
                      THEN SubSeq(inner, 1, Len(inner) - 1) ELSE inner
         IN <<group>> \o UrlMatches(SubSeq(body, close + 1, Len(body)))
    ELSE UrlMatches(Tail(v))

\* lines 86-88: each match replaces the first occurrence of its text in the value
\* as rewritten so far
RECURSIVE RewriteMatches(_, _, _)
RewriteMatches(newValue, matches, baseUrl) ==
    IF matches = <<>> THEN newValue
    ELSE RewriteMatches(replace(newValue, Head(matches), ResolveUrl(Head(matches), baseUrl)),
                        Tail(matches), baseUrl)

RewriteValue(value, baseUrl) == RewriteMatches(value, UrlMatches(value), baseUrl)

\* line 72: the visitor looks only at values that begin with url(
UrlVisitorApplies(value) == startsWith(value, <<"url(">>)

\* lines 71-94: urlRewritePlugin.Declaration
urlRewrite_Declaration(a, n, baseUrl) ==
    IF UrlVisitorApplies(a[n].value)
    THEN IF a[n].alreadyProcessed THEN a
         ELSE IF startsWith(a[n].value, <<"url(", "data:">>) THEN a
         ELSE SetAlreadyProcessed(SetValue(a, n, RewriteValue(a[n].value, baseUrl)), n)
    ELSE a

\* line 87 throws, at one of the matches
urlRewrite_DeclarationThrows(a, n, baseUrl) ==
    /\ UrlVisitorApplies(a[n].value)
    /\ ~a[n].alreadyProcessed
    /\ ~startsWith(a[n].value, <<"url(", "data:">>)
    /\ \E i \in DOMAIN UrlMatches(a[n].value) : UrlThrows(UrlMatches(a[n].value)[i], baseUrl)

\* lines 104-105 and 132-134, on the children from index i on (rule.each)
RECURSIVE MarginToPadding(_, _, _)
MarginToPadding(a, rule, i) ==
    IF i > Len(a[rule].nodes) THEN a
    ELSE LET node == a[rule].nodes[i]
             a1 == IF a[node].type = "decl" /\ startsWith(a[node].prop, <<"margin">>)
                   THEN SetProp(a, node, replace(a[node].prop, <<"margin">>, <<"padding">>))
                   ELSE a
         IN MarginToPadding(a1, rule, i + 1)

\* faulty variant: the selector check of lines 102 and 130 dropped
IsBodyRule_AnyRule(node) == TRUE

\* lines 102 and 130
IsBodyRule(node) == node.selector = "body"

\* lines 101-109: hideFixedElementsPlugin.Rule
hideFixedElements_Rule(a, n) ==
    IF IsBodyRule(a[n]) THEN MarginToPadding(a, n, 1) ELSE a

\* faulty variant: every position declaration taken for a fixed one
IsFixedPosition_AnyValue(node) == node.prop = <<"position">>

\* lines 111-114
IsFixedPosition(node) ==
    node.prop = <<"position">> /\ (node.value = <<"fixed">> \/ node.value = <<"sticky">>)

DisplayNone ==
    [NewNode("decl", 0) EXCEPT !.prop = <<"display">>, !.value = <<"none">>,
                               !.important = TRUE]

\* lines 110-123: hideFixedElementsPlugin.Declaration
hideFixedElements_Declaration(a, n) ==
    IF IsFixedPosition(a[n]) THEN append(a, a[n].parent, DisplayNone) ELSE a

\* lines 128-138: styleTweaksPlugin.Rule
styleTweaks_Rule(a, n) ==
    IF IsBodyRule(a[n]) THEN MarginToPadding(a, n, 1) ELSE a


-----------------------------------------------------------------------------
(* The stylesheets getCssOverride is given, as the parser reads them *)

Decl(prop, value, important) == [prop |-> prop, value |-> value, important |-> important]

RelativeUrl == <<"url(", "..", "/", "img", "/", "a.png", ")">>
ColorThenUrl == <<"#fff ", "url(", "a.png", ")">>
AbsoluteThenRelative ==
    <<"url(", "https:", "/", "/", "cdn.com", "/", "a.png", ")", ", ", "url(", "a.png", ")">>
DataUrl == <<"url(", "data:", "AAAA", ")">>

DeclSet ==
    {Decl(<<"position">>, <<"fixed">>, FALSE),
     Decl(<<"position">>, <<"sticky">>, FALSE),
     Decl(<<"position">>, <<"static">>, FALSE),
     Decl(<<"margin">>, <<"10px">>, FALSE),
     Decl(<<"margin", "-left">>, <<"10px">>, FALSE),
     Decl(<<"display">>, <<"none">>, TRUE),
     Decl(<<"background">>, RelativeUrl, FALSE),
     Decl(<<"background">>, ColorThenUrl, FALSE),
     Decl(<<"background">>, AbsoluteThenRelative, FALSE),
     Decl(<<"background">>, DataUrl, FALSE)}

Selectors == {"body", ".nav"}

Conditions ==
    {<<"screen">>,
     <<"(min-width: ", "5", "px)">>,
     <<"(min-width: ", "1", "0", "0", "px) and (max-width: ", "2", "0", "0", "px)">>}

ImportParams ==
    {<<"url(", "dq", "foo.css", "dq", ")">>,
     <<"dq", "foo.css", "dq">>,
     <<"url(", "foo.css", ")", " screen and (min-width: 100px", ")">>}

Scales == {[num |-> 2, den |-> 1], [num |-> 3, den |-> 2]}

SourceUrl == <<"https:", "/", "/", "site.com", "/", "css", "/", "a.css">>

DeclLists(k) == UNION {[1..n -> DeclSet] : n \in 0..k}

\* the statements that parse into at most k nodes
RuleStatements(k) ==
    IF k < 1 THEN {}
    ELSE {[kind |-> "rule", selector |-> sel, decls |-> ds, params |-> <<>>, rules |-> <<>>] :
             sel \in Selectors, ds \in DeclLists(k - 1)}

Statements(k) ==
    IF k < 1 THEN {}
    ELSE RuleStatements(k)
         \cup {[kind |-> "import", selector |-> "", decls |-> <<>>, params |-> ps,
                rules |-> <<>>] : ps \in ImportParams}
         \cup {[kind |-> "media", selector |-> "", decls |-> <<>>, params |-> c,
                rules |-> rs] :
                  c \in Conditions,
                  rs \in {<<>>} \cup {<<r>> : r \in RuleStatements(k - 1)}}

StatementSize(st) ==
    1 + Len(st.decls) + (IF st.rules = <<>> THEN 0 ELSE 1 + Len(st.rules[1].decls))

\* the stylesheets that parse into at most k nodes below the root
RECURSIVE Stylesheets(_)
Stylesheets(k) ==
    {<<>>} \cup UNION {{<<st>> \o rest : rest \in Stylesheets(k - StatementSize(st))} :
                          st \in Statements(k)}

\* the parser: the node table of a stylesheet
RECURSIVE ParseDecls(_, _, _)
ParseDecls(a, rule, ds) ==
    IF ds = <<>> THEN a
    ELSE LET d == [NewNode("decl", rule) EXCEPT !.prop = Head(ds).prop,
                                                !.value = Head(ds).value,
                                                !.important = Head(ds).important]
             id == Len(a) + 1
         IN ParseDecls([Append(a, d) EXCEPT ![rule].nodes = Append(@, id)], rule, Tail(ds))

RECURSIVE ParseStatements(_, _, _)
ParseStatements(a, parent, sts) ==
    IF sts = <<>> THEN a
    ELSE LET st == Head(sts)
             id == Len(a) + 1
             node == IF st.kind = "rule"
                     THEN [NewNode("rule", parent) EXCEPT !.selector = st.selector]
                     ELSE [NewNode("atrule", parent) EXCEPT !.name = st.kind,
                                                            !.params = st.params]
             a1 == [Append(a, node) EXCEPT ![parent].nodes = Append(@, id)]
             a2 == IF st.kind = "rule" THEN ParseDecls(a1, id, st.decls)
                   ELSE ParseStatements(a1, id, st.rules)
         IN ParseStatements(a2, parent, Tail(sts))

Parse(sheet) == ParseStatements(<<NewNode("root", 0)>>, Root, sheet)

-----------------------------------------------------------------------------
(* getCssOverride: the visitor loop of postcss over the four plugins *)

\* the visit of a node: the root has no visitors, every other node type has two
toStack(n) ==
    [node |-> n, phase |-> IF n = Root THEN "children" ELSE "visitors",
     visitorIndex |-> 1, iterator |-> 0]

Top == stack[Len(stack)]

Visiting(type, index) ==
    /\ cssPc = "walk"
    /\ stack # <<>>
    /\ Top.phase = "visitors"
    /\ Top.visitorIndex = index
    /\ ast[Top.node].type = type

\* the visit after its visitor number index has returned
AfterVisitor(type, index) ==
    [stack EXCEPT ![Len(stack)] =
        IF index = 2
        THEN [@ EXCEPT !.phase = IF type = "decl" THEN "exit" ELSE "children",
                       !.visitorIndex = 1]
        ELSE [@ EXCEPT !.visitorIndex = index + 1]]

\* the while loop of the run: a dirty root is walked (again)
StartPass ==
    /\ cssPc = "walk"
    /\ stack = <<>>
    /\ ~ast[Root].isClean
    /\ ast' = [ast EXCEPT ![Root].isClean = TRUE]
    /\ stack' = <<toStack(Root)>>
    /\ UNCHANGED <<cssUrl, conditionScale, parsed, cssPc, domVars, extVars>>

ScaleBreakpointsAtRule ==
    /\ Visiting("atrule", 1)
    /\ ast' = scaleBreakpoints_AtRule(ast, Top.node, conditionScale)
    /\ stack' = AfterVisitor("atrule", 1)
    /\ UNCHANGED <<cssUrl, conditionScale, parsed, cssPc, domVars, extVars>>

\* an error thrown in a visitor rejects the promise of process(), and with it the
\* promise of getCssOverride, which has no catch (lines 19-23)
UrlRewriteAtRule ==
    /\ Visiting("atrule", 2)
    /\ IF urlRewrite_AtRuleThrows(ast, Top.node, cssUrl)
       THEN /\ cssPc' = "rejected"
            /\ UNCHANGED <<ast, stack>>
       ELSE /\ ast' = urlRewrite_AtRule(ast, Top.node, cssUrl)
            /\ stack' = AfterVisitor("atrule", 2)
            /\ UNCHANGED cssPc
    /\ UNCHANGED <<cssUrl, conditionScale, parsed, domVars, extVars>>

HideFixedElementsRule ==
    /\ Visiting("rule", 1)
    /\ ast' = hideFixedElements_Rule(ast, Top.node)
    /\ stack' = AfterVisitor("rule", 1)
    /\ UNCHANGED <<cssUrl, conditionScale, parsed, cssPc, domVars, extVars>>

StyleTweaksRule ==
    /\ Visiting("rule", 2)
    /\ ast' = styleTweaks_Rule(ast, Top.node)
    /\ stack' = AfterVisitor("rule", 2)
    /\ UNCHANGED <<cssUrl, conditionScale, parsed, cssPc, domVars, extVars>>

UrlRewriteDeclaration ==
    /\ Visiting("decl", 1)
    /\ IF urlRewrite_DeclarationThrows(ast, Top.node, cssUrl)
       THEN /\ cssPc' = "rejected"
            /\ UNCHANGED <<ast, stack>>
       ELSE /\ ast' = urlRewrite_Declaration(ast, Top.node, cssUrl)
            /\ stack' = AfterVisitor("decl", 1)
            /\ UNCHANGED cssPc
    /\ UNCHANGED <<cssUrl, conditionScale, parsed, domVars, extVars>>

HideFixedElementsDeclaration ==
    /\ Visiting("decl", 2)
    /\ ast' = hideFixedElements_Declaration(ast, Top.node)
    /\ stack' = AfterVisitor("decl", 2)
    /\ UNCHANGED <<cssUrl, conditionScale, parsed, cssPc, domVars, extVars>>

\* the children event: a container with children is clean from here on
VisitChildren ==
    /\ cssPc = "walk"
    /\ stack # <<>>
    /\ Top.phase = "children"
    /\ IF ast[Top.node].nodes # <<>>
       THEN /\ ast' = [ast EXCEPT ![Top.node].isClean = TRUE]
            /\ stack' = [stack EXCEPT ![Len(stack)] =
                            [@ EXCEPT !.phase = "iterate", !.iterator = 1]]
       ELSE /\ ast' = ast
            /\ stack' = [stack EXCEPT ![Len(stack)] = [@ EXCEPT !.phase = "exit"]]
    /\ UNCHANGED <<cssUrl, conditionScale, parsed, cssPc, domVars, extVars>>

\* the positions, from the iterator on, of the children that are not clean
DirtyFrom(visit) ==
    {j \in visit.iterator..Len(ast[visit.node].nodes) :
        ~ast[ast[visit.node].nodes[j]].isClean}

\* the next dirty child is marked clean and visited
NextChild ==
    /\ cssPc = "walk"
    /\ stack # <<>>
    /\ Top.phase = "iterate"
    /\ DirtyFrom(Top) # {}
    /\ LET j == CHOOSE j \in DirtyFrom(Top) : \A i \in DirtyFrom(Top) : j <= i
           child == ast[Top.node].nodes[j]
       IN /\ ast' = [ast EXCEPT ![child].isClean = TRUE]
          /\ stack' = Append([stack EXCEPT ![Len(stack)] = [@ EXCEPT !.iterator = j + 1]],
                             toStack(child))
    /\ UNCHANGED <<cssUrl, conditionScale, parsed, cssPc, domVars, extVars>>

\* no visitor and no dirty child is left: the visit ends
LeaveNode ==
    /\ cssPc = "walk"
    /\ stack # <<>>
    /\ \/ Top.phase = "exit"
       \/ Top.phase = "iterate" /\ DirtyFrom(Top) = {}
    /\ stack' = SubSeq(stack, 1, Len(stack) - 1)
    /\ UNCHANGED <<cssUrl, conditionScale, parsed, ast, cssPc, domVars, extVars>>

\* lines 19-23: the root is clean, the result is returned
ReturnCss ==
    /\ cssPc = "walk"
    /\ stack = <<>>
    /\ ast[Root].isClean
    /\ cssPc' = "done"
    /\ UNCHANGED <<cssUrl, conditionScale, parsed, ast, stack, domVars, extVars>>

\* lines 7-18: the call, with the stylesheet parsed
InitCss ==
    /\ cssUrl = SourceUrl
    /\ conditionScale \in Scales
    /\ \E sheet \in Stylesheets(MaxNodes) :
          /\ parsed = Parse(sheet)
          /\ ast = Parse(sheet)
    /\ stack = <<>>
    /\ cssPc = "walk"
    /\ dom = [parent |-> <<>>, kind |-> <<>>]
    /\ classList = [e \in {0} |-> <<>>]
    /\ nextId = 1
    /\ styles = <<>>
    /\ theme = [originalBackground |-> Dark, background |-> Dark,
                activeColorTheme |-> "auto"]
    /\ pc = "idle"
    /\ paragraphs = <<>>
    /\ paraIdx = 1
    /\ containerSelectors = <<>>
    /\ overrideCssDeclarations = <<>>
    /\ backgroundColors = <<>>
    /\ seenNodes = {}
    /\ called = {}
    /\ ExtIdle

NextCss ==
    \/ StartPass
    \/ ScaleBreakpointsAtRule
    \/ UrlRewriteAtRule
    \/ HideFixedElementsRule
    \/ StyleTweaksRule
    \/ UrlRewriteDeclaration
    \/ HideFixedElementsDeclaration
    \/ VisitChildren
    \/ NextChild
    \/ LeaveNode
    \/ ReturnCss

SpecCss == InitCss /\ [][NextCss]_vars

-----------------------------------------------------------------------------
(* getCssOverride on stylesheets with a reference that does not resolve *)

BadHostUrl == <<"url(", "/", "/", "[", ")">>

FragmentDecls ==
    {Decl(<<"background">>, BadHostUrl, FALSE),
     Decl(<<"background">>, RelativeUrl, FALSE),
     Decl(<<"position">>, <<"fixed">>, FALSE),
     Decl(<<"margin">>, <<"10px">>, FALSE)}

MaxRules == 2

FragmentRules ==
    {[kind |-> "rule", selector |-> sel, decls |-> ds, params |-> <<>>, rules |-> <<>>] :
        sel \in Selectors, ds \in {<<>>} \cup {<<d>> : d \in FragmentDecls}}

FragmentStatements ==
    FragmentRules
    \cup {[kind |-> "import", selector |-> "", decls |-> <<>>,
           params |-> <<"dq", "foo.css", "dq">>, rules |-> <<>>],
          [kind |-> "media", selector |-> "", decls |-> <<>>,
           params |-> <<"(min-width: ", "5", "px)">>, rules |-> <<>>]}

InitFragments ==
    /\ cssUrl = SourceUrl
    /\ conditionScale \in Scales
    /\ \E n \in 0..MaxRules :
         \E sheet \in [1..n -> FragmentStatements] :
            /\ parsed = Parse(sheet)
            /\ ast = Parse(sheet)
    /\ stack = <<>>
    /\ cssPc = "walk"
    /\ dom = [parent |-> <<>>, kind |-> <<>>]
    /\ classList = [e \in {0} |-> <<>>]
    /\ nextId = 1
    /\ styles = <<>>
    /\ theme = [originalBackground |-> Dark, background |-> Dark,
                activeColorTheme |-> "auto"]
    /\ pc = "idle"
    /\ paragraphs = <<>>
    /\ paraIdx = 1
    /\ containerSelectors = <<>>
    /\ overrideCssDeclarations = <<>>
    /\ backgroundColors = <<>>
    /\ seenNodes = {}
    /\ called = {}
    /\ ExtIdle

SpecFragments == InitFragments /\ [][NextCss]_vars


-----------------------------------------------------------------------------
(* Claims about getCssOverride *)

Done == cssPc = "done"

ParsedNodes == DOMAIN parsed
MediaRules == {n \in ParsedNodes : parsed[n].type = "atrule" /\ parsed[n].name = "media"}
ImportRules == {n \in ParsedNodes : parsed[n].type = "atrule" /\ parsed[n].name = "import"}
Declarations == {n \in ParsedNodes : parsed[n].type = "decl"}

\* every run of digits replaced, where it stands, by the rounded product
RECURSIVE ScaleInPlace(_, _, _)
ScaleInPlace(s, run, scale) ==
    LET flush == IF run = <<>> THEN <<>> ELSE toString(RoundScaled(scale, parseInt(run)))
    IN IF s = <<>> THEN flush
       ELSE IF IsDigit(Head(s)) THEN ScaleInPlace(Tail(s), Append(run, Head(s)), scale)
       ELSE flush \o <<Head(s)>> \o ScaleInPlace(Tail(s), <<>>, scale)

\* C4: after getCssOverride, in the condition of every @media rule each integer
\* literal stands replaced, at its own position, by round(scaleFactor * n), and
\* nothing else of the condition has changed.
C4_EachLiteralScaled ==
    Done => \A n \in MediaRules :
               ast[n].params = ScaleInPlace(parsed[n].params, <<>>, conditionScale)

\* C5: a @media rule that is marked alreadyProcessed keeps its condition in every
\* later step, also when the rule is visited again, and when getCssOverride
\* returns every @media rule is marked and holds the condition one scaling pass
\* makes of the parsed one: each rule is scaled exactly once.
C5_ScaledOnce ==
    [][/\ \A n \in MediaRules :
             ast[n].alreadyProcessed =>
                /\ ast'[n].params = ast[n].params
                /\ ast'[n].alreadyProcessed
       /\ cssPc' = "done" =>
             \A n \in MediaRules :
                /\ ast'[n].alreadyProcessed
                /\ ast'[n].params = ScaleCondition(parsed[n].params, conditionScale)
      ]_vars

\* the scaling visitor is called again on a rule it has scaled and marked
C5_Witness ==
    /\ Visiting("atrule", 1)
    /\ Top.node \in MediaRules
    /\ ast[Top.node].alreadyProcessed
    /\ ast[Top.node].params # parsed[Top.node].params

\* every relative url(...) reference replaced, where it stands, by its resolution
RECURSIVE ResolveInPlace(_, _)
ResolveInPlace(v, baseUrl) ==
    IF v = <<>> THEN <<>>
    ELSE IF Head(v) = "url(" /\ ~UrlExcluded(Tail(v)) /\ SeqContains(Tail(v), ")")
    THEN LET rest == Tail(v)
             open == IF Head(rest) = "dq" THEN <<"dq">> ELSE <<>>
             body == SubSeq(rest, Len(open) + 1, Len(rest))
             close == IndexOf(body, <<")">>)
             inner == SubSeq(body, 1, close - 1)
             shut == IF inner # <<>> /\ inner[Len(inner)] = "dq" THEN <<"dq">> ELSE <<>>
             group == SubSeq(inner, 1, Len(inner) - Len(shut))
         IN <<"url(">> \o open \o ResolveUrl(group, baseUrl) \o shut \o <<")">>
               \o ResolveInPlace(SubSeq(body, close + 1, Len(body)), baseUrl)
    ELSE <<Head(v)>> \o ResolveInPlace(Tail(v), baseUrl)

\* C6: after getCssOverride, in every declaration value every relative url(...)
\* reference, wherever it stands in the value, is replaced by its resolution
\* against the stylesheet's URL.
C6_RelativeUrlsResolved ==
    Done => \A n \in Declarations : ast[n].value = ResolveInPlace(parsed[n].value, cssUrl)

\* the text of every url(...) reference of a value, in order
RECURSIVE UrlReferences(_)
UrlReferences(v) ==
    IF v = <<>> THEN <<>>
    ELSE IF Head(v) = "url(" /\ SeqContains(Tail(v), ")")
    THEN LET close == IndexOf(Tail(v), <<")">>)
         IN <<SubSeq(Tail(v), 1, close - 1)>>
               \o UrlReferences(SubSeq(Tail(v), close + 1, Len(v) - 1))
    ELSE UrlReferences(Tail(v))

\* C7: after getCssOverride, every data:, http(s):// and fragment url(...)
\* reference of a declaration value is what it was, also in a value that holds
\* relative references as well.
C7_AbsoluteUrlsUnchanged ==
    Done => \A n \in Declarations :
               LET before == UrlReferences(parsed[n].value)
                   after == UrlReferences(ast[n].value)
               IN /\ Len(after) = Len(before)
                  /\ \A i \in DOMAIN before :
                        UrlExcluded(before[i]) => after[i] = before[i]

\* the reference of an @import: the text in url(...) or in quotes
ImportReference(params) ==
    LET noUrl == IF params # <<>> /\ Head(params) = "url(" THEN Tail(params) ELSE params
        noQuote == IF noUrl # <<>> /\ Head(noUrl) = "dq" THEN Tail(noUrl) ELSE noUrl
        stops == {i \in DOMAIN noQuote : noQuote[i] \in {"dq", ")"}}
        stop == IF stops = {} THEN Len(noQuote) + 1
                ELSE CHOOSE i \in stops : \A j \in stops : i <= j
    IN SubSeq(noQuote, 1, stop - 1)

\* C8: after getCssOverride, the params of every @import rule with a relative
\* reference hold that reference resolved against the stylesheet's URL.
C8_ImportResolved ==
    Done => \A n \in ImportRules :
               LET ref == ImportReference(parsed[n].params)
               IN ~IsAbsoluteUrl(ref)
                     => IndexOf(ast[n].params, ResolveUrl(ref, cssUrl)) # 0

IsDisplayNone(node) ==
    /\ node.type = "decl"
    /\ node.prop = <<"display">>
    /\ node.value = <<"none">>
    /\ node.important

FixedChildren(n) ==
    {i \in DOMAIN parsed[n].nodes :
        LET d == parsed[parsed[n].nodes[i]]
        IN d.type = "decl" /\ d.prop = <<"position">>
              /\ d.value \in {<<"fixed">>, <<"sticky">>}}

\* C9: the children of a rule are at all times its parsed children followed by
\* appended declarations display: none !important, never more of them than the
\* rule has position: fixed or position: sticky declarations; when getCssOverride
\* returns there is exactly one per such declaration, and so none in a rule
\* without one.
C9_OneDisplayNonePerFixed ==
    \A n \in ParsedNodes :
       LET before == parsed[n].nodes
           after == ast[n].nodes
       IN /\ Len(after) >= Len(before)
          /\ SubSeq(after, 1, Len(before)) = before
          /\ \A j \in (Len(before) + 1)..Len(after) :
                /\ after[j] \notin ParsedNodes
                /\ IsDisplayNone(ast[after[j]])
                /\ ast[after[j]].parent = n
          /\ Len(after) - Len(before) <= Cardinality(FixedChildren(n))
          /\ Done => Len(after) - Len(before) = Cardinality(FixedChildren(n))

\* a rule with two fixed or sticky declarations, after the run
C9_Witness ==
    /\ Done
    /\ \E n \in ParsedNodes :
          /\ Cardinality(FixedChildren(n)) = 2
          /\ Len(ast[n].nodes) = 4

InBodyRule(n) ==
    /\ parsed[n].type = "decl"
    /\ parsed[parsed[n].parent].type = "rule"
    /\ parsed[parsed[n].parent].selector = "body"

\* C10: a step that changes the property name of a declaration changes it from
\* margin* to the corresponding padding*, in a rule whose selector is body, and
\* leaves the value; when getCssOverride returns, every margin* declaration of
\* every body rule is so renamed and every other declaration has the property
\* name it had.
C10_BodyMarginToPadding ==
    [][/\ \A n \in Declarations :
             ast'[n].prop # ast[n].prop =>
                /\ InBodyRule(n)
                /\ Head(ast[n].prop) = "margin"
                /\ ast'[n].prop = <<"padding">> \o Tail(ast[n].prop)
                /\ ast'[n].value = ast[n].value
       /\ cssPc' = "done" =>
             \A n \in Declarations :
                ast'[n].prop =
                   IF InBodyRule(n) /\ Head(parsed[n].prop) = "margin"
                   THEN <<"padding">> \o Tail(parsed[n].prop)
                   ELSE parsed[n].prop
      ]_vars

\* a body rule whose margin-left has become padding-left, after the run
C10_Witness ==
    /\ Done
    /\ \E n \in Declarations :
          /\ InBodyRule(n)
          /\ parsed[n].prop = <<"margin", "-left">>
          /\ ast[n].prop = <<"padding", "-left">>
          /\ ast[n].value = parsed[n].value

\* the references of a value that new URL cannot resolve
Unresolvable(value, baseUrl) ==
    \E i \in DOMAIN UrlReferences(value) : UrlThrows(UrlReferences(value)[i], baseUrl)

\* C16: getCssOverride never rejects; when it returns, a declaration with a
\* reference that cannot be resolved has the value it had, and every other rule is
\* transformed: a rule with a position: fixed declaration has its display: none.
C16_FragmentIsolated ==
    /\ cssPc # "rejected"
    /\ Done =>
          /\ \A n \in Declarations :
                Unresolvable(parsed[n].value, cssUrl) => ast[n].value = parsed[n].value
          /\ \A n \in ParsedNodes :
                Len(ast[n].nodes) = Len(parsed[n].nodes) + Cardinality(FixedChildren(n))

-----------------------------------------------------------------------------
(* events.ts: the background script's handler of content-script messages *)

\* the traversal and the rewriter at rest
PageIdle ==
    /\ dom = [parent |-> <<>>, kind |-> <<>>]
    /\ classList = [e \in {Body} |-> <<>>]
    /\ nextId = 1
    /\ styles = <<PageStyle>>
    /\ theme = [originalBackground |-> Dark, background |-> Dark,
                activeColorTheme |-> "auto"]
    /\ pc = "idle"
    /\ paragraphs = <<>>
    /\ paraIdx = 1
    /\ containerSelectors = <<>>
    /\ overrideCssDeclarations = <<>>
    /\ backgroundColors = <<>>
    /\ seenNodes = {}
    /\ called = {}
    /\ cssUrl = <<>>
    /\ conditionScale = [num |-> 1, den |-> 1]
    /\ parsed = <<>>
    /\ ast = <<>>
    /\ stack = <<>>
    /\ cssPc = "idle"

Msgs == 1..MaxMessages
Events == {"fetchCss", "reportEvent"}
\* what the network does with a fetch: it answers, it fails, it never answers
Fates == {"ok", "fail", "hang"}

Unsent ==
    [event |-> "", phase |-> "unsent", fate |-> "", open |-> FALSE, delivered |-> 0,
     result |-> ""]

\* fetchCss(url) of ./actions catches the failures of its fetch, a fetch that
\* fails and one that hangs: its promise resolves with the stylesheet text or
\* with an error status, and never rejects
fetchCss(fate) == IF fate = "ok" THEN "success" ELSE "error"

\* faulty variant: the handler returns false on every path
KeepsChannelOpen_Never(event) == FALSE

\* lines 56-58 and 63: the handler returns true for fetchCss and false otherwise;
\* true keeps the channel open for a later sendResponse
KeepsChannelOpen(event) == event = "fetchCss"

\* a content script calls browser.runtime.sendMessage
SendMessage(m) ==
    /\ messages[m].phase = "unsent"
    /\ \E e \in Events :
          messages' = [messages EXCEPT ![m] = [@ EXCEPT !.event = e, !.phase = "sent"]]
    /\ UNCHANGED <<domVars, cssVars, suspended, call, alone, annotations, page>>

\* lines 42-64: the listener runs on message m
OnMessage(m) ==
    /\ messages[m].phase = "sent"
    /\ IF messages[m].event = "fetchCss"
       THEN \E f \in Fates :
               messages' = [messages EXCEPT ![m] =
                               [@ EXCEPT !.phase = "fetching", !.fate = f,
                                         !.open = KeepsChannelOpen(messages[m].event)]]
       ELSE messages' = [messages EXCEPT ![m] =
                            [@ EXCEPT !.phase = "handled",
                                      !.open = KeepsChannelOpen(messages[m].event)]]
    /\ UNCHANGED <<domVars, cssVars, suspended, call, alone, annotations, page>>

\* the promise of fetchCss(message.url) is resolved
FetchSettles(m) ==
    /\ messages[m].phase = "fetching"
    /\ messages' = [messages EXCEPT ![m] =
                       [@ EXCEPT !.phase = "settled", !.result = fetchCss(messages[m].fate)]]
    /\ UNCHANGED <<domVars, cssVars, suspended, call, alone, annotations, page>>

\* line 57: the then-callback calls sendResponse, which reaches the content script
\* when the channel is open
SendResponse(m) ==
    /\ messages[m].phase = "settled"
    /\ messages' = [messages EXCEPT ![m] =
                       [@ EXCEPT !.phase = "answered",
                                 !.delivered = IF messages[m].open THEN messages[m].delivered + 1
                                               ELSE messages[m].delivered]]
    /\ UNCHANGED <<domVars, cssVars, suspended, call, alone, annotations, page>>

InitMessages ==
    /\ PageIdle
    /\ NoConcurrency
    /\ NoAnnotations
    /\ NoPage
    /\ messages = [m \in Msgs |-> Unsent]

NextMessages ==
    \/ \E m \in Msgs : SendMessage(m)
    \/ \E m \in Msgs : OnMessage(m)
    \/ \E m \in Msgs : FetchSettles(m)
    \/ \E m \in Msgs : SendResponse(m)

\* the browser dispatches every message, the promise of fetchCss settles, and the
\* then-callback of a resolved promise runs
SpecMessages ==
    /\ InitMessages
    /\ [][NextMessages]_vars
    /\ \A m \in Msgs :
          /\ WF_vars(OnMessage(m))
          /\ WF_vars(FetchSettles(m))
          /\ WF_vars(SendResponse(m))

-----------------------------------------------------------------------------
(* The annotation listener (annotationsListener.ts).  The k-th call of        *)
(* createAnnotationListener makes the listener function k and the            *)
(* ResizeObserver k; attached is the set of functions registered for the     *)
(* window's message event, observing the set of observers that observe       *)
(* document.body.  The two module variables hold one reference each.         *)

MaxCreates == 6

\* lines 76-90: a new ResizeObserver is stored in the module variable and
\* observes document.body
_observeHeightChange(a, k) ==
    [a EXCEPT !.resizeObserver = k, !.observing = @ \cup {k}]

\* lines 12-67: a new onMessage function is registered and stored in listenerRef,
\* then the height observer is made
createAnnotationListener ==
    /\ annotations.created < MaxCreates
    /\ LET k == annotations.created + 1
       IN  annotations' =
              _observeHeightChange(
                 [annotations EXCEPT !.created = k, !.attached = @ \cup {k},
                                     !.listenerRef = k], k)
    /\ UNCHANGED <<domVars, cssVars, suspended, call, alone, messages, page>>

\* lines 69-73: the function in listenerRef is unregistered and the observer in
\* resizeObserver stops observing; both are no-ops on undefined
removeAnnotationListener ==
    /\ annotations' =
          [annotations EXCEPT !.attached = @ \ {annotations.listenerRef},
                              !.observing = @ \ {annotations.resizeObserver}]
    /\ UNCHANGED <<domVars, cssVars, suspended, call, alone, messages, page>>

InitAnnotations ==
    /\ PageIdle
    /\ NoConcurrency
    /\ NoMessages
    /\ NoAnnotations
    /\ NoPage

NextAnnotations ==
    \/ createAnnotationListener
    \/ removeAnnotationListener

SpecAnnotations == InitAnnotations /\ [][NextAnnotations]_vars

\* C18: a removeAnnotationListener call leaves no message listener of any
\* createAnnotationListener call attached and no ResizeObserver of any such call
\* observing document.body.
C18_RemoveDetachesAll ==
    [][removeAnnotationListener =>
          /\ annotations'.attached = {}
          /\ annotations'.observing = {}]_vars

-----------------------------------------------------------------------------
(* Two getCssOverride calls on different stylesheets.  Each call has its own  *)
(* arguments, its own plugin objects of lines 13-14 and its own tree; the    *)
(* plugin objects of lines 15-16 are shared and hold no data.  The six css   *)
(* variables are those of the call that runs now, suspended holds those of   *)
(* the other call.  Each call first runs with no other call in progress, and *)
(* what it returns is kept in alone; then both are made again and the        *)
(* scheduler may switch between them after every step.                       *)

MaxStatements == 1

OtherUrl == <<"https:", "/", "/", "cdn.com", "/", "b.css">>

ConcurrentStatements ==
    {[kind |-> "media", selector |-> "", decls |-> <<>>,
      params |-> <<"(min-width: ", "5", "px)">>,
      rules |-> <<[kind |-> "rule", selector |-> ".nav",
                   decls |-> <<Decl(<<"position">>, <<"fixed">>, FALSE)>>,
                   params |-> <<>>, rules |-> <<>>]>>],
     [kind |-> "import", selector |-> "", decls |-> <<>>,
      params |-> <<"url(", "dq", "foo.css", "dq", ")">>, rules |-> <<>>],
     [kind |-> "rule", selector |-> "body",
      decls |-> <<Decl(<<"margin">>, <<"10px">>, FALSE),
                  Decl(<<"background">>, RelativeUrl, FALSE)>>,
      params |-> <<>>, rules |-> <<>>]}

ConcurrentSheets == UNION {[1..n -> ConcurrentStatements] : n \in 0..MaxStatements}

\* lines 7-18: call c on a stylesheet, parsed, before its first step; the two
\* calls differ in their URL and in their scale factor
NewCall(c, sheet) ==
    [cssUrl |-> IF c = 1 THEN SourceUrl ELSE OtherUrl,
     conditionScale |-> IF c = 1 THEN [num |-> 2, den |-> 1] ELSE [num |-> 3, den |-> 2],
     parsed |-> Parse(sheet), ast |-> Parse(sheet), stack |-> <<>>, cssPc |-> "walk",
     call |-> c]

\* the call that runs now
Running ==
    [cssUrl |-> cssUrl, conditionScale |-> conditionScale, parsed |-> parsed,
     ast |-> ast, stack |-> stack, cssPc |-> cssPc, call |-> call]

Finished(c) == c.cssPc \in {"done", "rejected"}

\* call c goes on where it stopped
Resume(c) ==
    /\ cssUrl' = c.cssUrl
    /\ conditionScale' = c.conditionScale
    /\ parsed' = c.parsed
    /\ ast' = c.ast
    /\ stack' = c.stack
    /\ cssPc' = c.cssPc
    /\ call' = c.call

\* a call that ran with no other call in progress has returned: what it returned
\* is kept, the same call is made again, and the other call runs
ReturnAlone ==
    /\ Len(alone) < 2
    /\ Finished(Running)
    /\ alone' = Append(alone, [css |-> ast, cssPc |-> cssPc])
    /\ Resume(suspended)
    /\ suspended' = [Running EXCEPT !.ast = parsed, !.stack = <<>>, !.cssPc = "walk"]
    /\ UNCHANGED <<domVars, messages, annotations, page>>

\* faulty variant: the scale factor is one module-level value, which a switch
\* leaves as it is
Yield_SharedScale ==
    /\ Len(alone) = 2
    /\ ~Finished(suspended)
    /\ Resume([suspended EXCEPT !.conditionScale = conditionScale])
    /\ suspended' = Running
    /\ UNCHANGED <<alone, domVars, messages, annotations, page>>

\* the scheduler switches to the other call: the arguments, the plugin objects
\* made from them (lines 12-14) and the tree (line 19) belong to the call
Yield ==
    /\ Len(alone) = 2
    /\ ~Finished(suspended)
    /\ Resume(suspended)
    /\ suspended' = Running
    /\ UNCHANGED <<alone, domVars, messages, annotations, page>>

InitConcurrent ==
    /\ \E s1, s2 \in ConcurrentSheets :
          /\ cssUrl = NewCall(1, s1).cssUrl
          /\ conditionScale = NewCall(1, s1).conditionScale
          /\ parsed = NewCall(1, s1).parsed
          /\ ast = NewCall(1, s1).ast
          /\ stack = NewCall(1, s1).stack
          /\ cssPc = NewCall(1, s1).cssPc
          /\ call = NewCall(1, s1).call
          /\ suspended = NewCall(2, s2)
    /\ alone = <<>>
    /\ dom = [parent |-> <<>>, kind |-> <<>>]
    /\ classList = [e \in {0} |-> <<>>]
    /\ nextId = 1
    /\ styles = <<>>
    /\ theme = [originalBackground |-> Dark, background |-> Dark,
                activeColorTheme |-> "auto"]
    /\ pc = "idle"
    /\ paragraphs = <<>>
    /\ paraIdx = 1
    /\ containerSelectors = <<>>
    /\ overrideCssDeclarations = <<>>
    /\ backgroundColors = <<>>
    /\ seenNodes = {}
    /\ called = {}
    /\ NoMessages
    /\ NoAnnotations
    /\ NoPage

NextConcurrent ==
    \/ NextCss
    \/ ReturnAlone
    \/ Yield

SpecConcurrent == InitConcurrent /\ [][NextConcurrent]_vars

\* what call c returned when it ran alone
SameAsAlone(c) == c.cssPc = alone[c.call].cssPc /\ c.ast = alone[c.call].css

\* C19: whatever the interleaving of the two calls, each call returns what it
\* returned when it ran alone on the same (cssUrl, cssText, conditionScale).
C19_Independent ==
    Len(alone) = 2 =>
       /\ Finished(Running) => SameAsAlone(Running)
       /\ Finished(suspended) => SameAsAlone(suspended)

\* the second call has returned a rewritten stylesheet while the first call,
\* which has already changed its tree, is in the middle of its walk
C19_Witness ==
    /\ Len(alone) = 2
    /\ call = 2
    /\ cssPc = "done"
    /\ ast # parsed
    /\ suspended.cssPc = "walk"
    /\ suspended.stack # <<>>
    /\ suspended.ast # suspended.parsed
    /\ \E n \in DOMAIN suspended.ast : suspended.ast[n].alreadyProcessed

-----------------------------------------------------------------------------
(* iterateDOM on pages whose text may sit in <div> and <span> elements, with  *)
(* or without paragraph-like elements                                        *)

MaxTags == 3

InitFallback ==
    /\ \E n \in 1..MaxTags :
         \E par \in Trees(n) :
           \E kinds \in [1..n -> {"p", "div", "span", "flex"}] :
              /\ \A e \in 1..n : IsLeaf(par, e) \/ kinds[e] \in {"div", "flex"}
              /\ dom = [parent |-> par, kind |-> kinds]
              /\ classList = [e \in 0..n |-> <<>>]
    /\ nextId = 1
    /\ styles = <<PageStyle>>
    /\ theme = [originalBackground |-> Dark, background |-> Dark,
                activeColorTheme |-> "auto"]
    /\ pc = "idle"
    /\ paragraphs = <<>>
    /\ paraIdx = 1
    /\ containerSelectors = <<>>
    /\ overrideCssDeclarations = <<>>
    /\ backgroundColors = <<>>
    /\ seenNodes = {}
    /\ called = {}
    /\ cssUrl = <<>>
    /\ conditionScale = [num |-> 1, den |-> 1]
    /\ parsed = <<>>
    /\ ast = <<>>
    /\ stack = <<>>
    /\ cssPc = "idle"
    /\ ExtIdle

SpecFallback == InitFallback /\ [][NextDom]_vars

\* C21: when body holds no element matching "p, font, pre", the traversal walks
\* from the elements matching "div, span": the list iterated is that of the
\* div and span elements, and the finished traversal has container selectors.
C21_FallbackSelection ==
    (pc # "idle" /\ querySelectorAll(globalParagraphSelector) = <<>>)
       => /\ paragraphs = querySelectorAll({"DIV", "SPAN"})
          /\ pc = "ready" => containerSelectors # <<>>

-----------------------------------------------------------------------------
(* getCssOverride on rules that hold a margin and a padding of the same name *)

MaxDecls == 2

PaddingDecls ==
    {Decl(<<"margin">>, <<"10px">>, FALSE),
     Decl(<<"padding">>, <<"5px">>, FALSE),
     Decl(<<"position">>, <<"fixed">>, FALSE)}

\* one rule, alone or after an at-rule
InitPadding ==
    /\ cssUrl = SourceUrl
    /\ conditionScale \in Scales
    /\ \E sel \in Selectors, ds \in DeclLists(0) \cup UNION {[1..n -> PaddingDecls] : n \in 1..MaxDecls},
          before \in {<<>>, <<[kind |-> "import", selector |-> "", decls |-> <<>>,
                               params |-> <<"url(", "dq", "foo.css", "dq", ")">>,
                               rules |-> <<>>]>>,
                            <<[kind |-> "media", selector |-> "", decls |-> <<>>,
                               params |-> <<"(min-width: ", "5", "px)">>,
                               rules |-> <<>>]>>} :
          LET sheet == before \o <<[kind |-> "rule", selector |-> sel, decls |-> ds,
                                     params |-> <<>>, rules |-> <<>>]>>
          IN /\ parsed = Parse(sheet)
             /\ ast = Parse(sheet)
    /\ stack = <<>>
    /\ cssPc = "walk"
    /\ dom = [parent |-> <<>>, kind |-> <<>>]
    /\ classList = [e \in {0} |-> <<>>]
    /\ nextId = 1
    /\ styles = <<>>
    /\ theme = [originalBackground |-> Dark, background |-> Dark,
                activeColorTheme |-> "auto"]
    /\ pc = "idle"
    /\ paragraphs = <<>>
    /\ paraIdx = 1
    /\ containerSelectors = <<>>
    /\ overrideCssDeclarations = <<>>
    /\ backgroundColors = <<>>
    /\ seenNodes = {}
    /\ called = {}
    /\ ExtIdle

SpecPadding == InitPadding /\ [][NextCss]_vars

\* the value of the last declaration of property prop in rule
EffectiveValue(a, rule, prop) ==
    LET hits == {i \in DOMAIN a[rule].nodes : a[a[rule].nodes[i]].prop = prop}
        last == CHOOSE i \in hits : \A j \in hits : j <= i
    IN a[a[rule].nodes[last]].value

\* C24: when getCssOverride returns, in a body rule that was written with a
\* margin and a padding declaration, in either order, the last padding
\* declaration has the value of the former margin declaration.
C24_PaddingOverwritten ==
    Done =>
       \A rule \in ParsedNodes :
          (/\ parsed[rule].type = "rule"
           /\ parsed[rule].selector = "body"
           /\ \E m, q \in DOMAIN parsed[rule].nodes :
                 /\ parsed[parsed[rule].nodes[m]].prop = <<"margin">>
                 /\ parsed[parsed[rule].nodes[q]].prop = <<"padding">>)
             => EffectiveValue(ast, rule, <<"padding">>) = <<"10px">>

-----------------------------------------------------------------------------
(* Termination of getCssOverride.  Every step of the run makes a rank, four   *)
(* natural numbers in lexicographic order, smaller; and while the run is not  *)
(* over, it has a next step.                                                  *)

\* the changes the plugins can still make to the tree a: media rules and url
\* declarations without the mark, margin declarations of body rules, fixed or
\* sticky declarations without their display declaration, import rules whose
\* params the visitor would change
Potential(a) ==
    Cardinality({n \in DOMAIN a : a[n].type = "atrule" /\ a[n].name = "media"
                                     /\ ~a[n].alreadyProcessed})
    + Cardinality({n \in DOMAIN a : a[n].type = "decl" /\ UrlVisitorApplies(a[n].value)
                                       /\ ~a[n].alreadyProcessed
                                       /\ ~startsWith(a[n].value, <<"url(", "data:">>)})
    + Cardinality({n \in DOMAIN a : a[n].type = "decl" /\ a[a[n].parent].selector = "body"
                                       /\ startsWith(a[n].prop, <<"margin">>)})
    + Cardinality({n \in DOMAIN a : a[n].type = "decl" /\ IsFixedPosition(a[n])})
    - (Len(a) - Len(parsed))
    + Cardinality({n \in DOMAIN a : a[n].type = "atrule" /\ a[n].name = "import"
                                       /\ ~urlRewrite_AtRuleThrows(a, n, cssUrl)
                                       /\ urlRewrite_AtRule(a, n, cssUrl) # a})

\* what is left of a visit, in steps of that visit
RECURSIVE StackWork(_)
StackWork(st) ==
    IF st = <<>> THEN 0
    ELSE StackWork(Tail(st))
         + (CASE Head(st).phase = "visitors" -> 6 - Head(st).visitorIndex
              [] Head(st).phase = "children" -> 3
              [] Head(st).phase = "iterate" -> 2
              [] Head(st).phase = "exit" -> 1)

Rank(a, st, p) ==
    <<Potential(a), Cardinality({n \in DOMAIN a : ~a[n].isClean}), StackWork(st),
      IF p = "walk" THEN 1 ELSE 0>>

LexLess(x, y) ==
    \E i \in 1..4 : x[i] < y[i] /\ \A j \in 1..(i - 1) : x[j] = y[j]

\* the run that is not over has a next step
HasNextStep ==
    cssPc = "walk" =>
       \/ stack = <<>>
       \/ Top.phase \in {"children", "iterate", "exit"}
       \/ /\ Top.phase = "visitors"
          /\ Top.visitorIndex \in {1, 2}
          /\ ast[Top.node].type \in {"atrule", "rule", "decl"}

-----------------------------------------------------------------------------
(* The callbacks of the annotation listener (annotationsListener.ts).  torn   *)
(* is the set of calls whose sidebar iframe has no contentWindow any more,    *)
(* timers the set of throttled callbacks whose wait interval runs, trailing   *)
(* those of them with a call recorded during the interval.  posts counts the  *)
(* changedDisplayOffset messages, msgs the message events of the window, and  *)
(* processed holds the listeners that worked on the last message event.       *)

MaxListeners == 2
MaxPosts == 2
MaxWindowMessages == 2

\* the sidebar iframe of call k is taken out of the document: its contentWindow
\* becomes null (tested in lines 15 and 52)
TearDownIframe(k) ==
    /\ k \in 1..annotations.created
    /\ k \notin annotations.torn
    /\ annotations' = [annotations EXCEPT !.torn = @ \cup {k}]
    /\ UNCHANGED <<domVars, cssVars, suspended, call, alone, messages, page>>

\* lines 51-66: the height callback of call k.  Without a contentWindow it calls
\* unobserve on the observer in the module variable resizeObserver and returns;
\* otherwise it posts one changedDisplayOffset message
HeightCallback(a, k) ==
    IF k \in a.torn
    THEN [a EXCEPT !.observing = @ \ {a.resizeObserver}]
    ELSE [a EXCEPT !.posts = @ + 1]

\* lines 77-87: observer k reports a height different from oldHeight and calls
\* throttle(callback, 2000): outside the wait interval the callback runs at once
\* and the interval starts, inside it the call is recorded for the trailing edge
HeightChange(k) ==
    /\ k \in annotations.observing
    /\ annotations.posts < MaxPosts
    /\ annotations' =
          IF k \in annotations.timers
          THEN [annotations EXCEPT !.trailing = @ \cup {k}]
          ELSE HeightCallback([annotations EXCEPT !.timers = @ \cup {k}], k)
    /\ UNCHANGED <<domVars, cssVars, suspended, call, alone, messages, page>>

\* line 77: the wait interval of throttled callback k ends; a recorded call runs
\* the callback now (trailing edge)
TimerExpires(k) ==
    /\ k \in annotations.timers
    /\ annotations.posts < MaxPosts
    /\ annotations' =
          LET a == [annotations EXCEPT !.timers = @ \ {k}, !.trailing = @ \ {k}]
          IN  IF k \in annotations.trailing THEN HeightCallback(a, k) ELSE a
    /\ UNCHANGED <<domVars, cssVars, suspended, call, alone, messages, page>>

\* line 17: the value of this in listener k.  The window calls a listener
\* function with this bound to the event's currentTarget, the window (0), which
\* is none of the listener functions 1, 2, ...
ThisInListener(k) == 0

\* lines 14-46, 47: a message event of the window runs every attached listener.
\* A listener without contentWindow calls removeEventListener("message", this)
\* and returns; the others work on the event
DispatchMessage ==
    /\ annotations.attached # {}
    /\ annotations.msgs < MaxWindowMessages
    /\ annotations' =
          [annotations EXCEPT
             !.msgs = @ + 1,
             !.attached = @ \ {ThisInListener(k) :
                                  k \in annotations.attached \cap annotations.torn},
             !.processed = annotations.attached \ annotations.torn]
    /\ UNCHANGED <<domVars, cssVars, suspended, call, alone, messages, page>>

NextSidebar ==
    \/ createAnnotationListener /\ annotations.created < MaxListeners
    \/ removeAnnotationListener
    \/ \E k \in 1..MaxListeners : TearDownIframe(k)
    \/ \E k \in 1..MaxListeners : HeightChange(k)
    \/ \E k \in 1..MaxListeners : TimerExpires(k)
    \/ DispatchMessage

SpecSidebar == InitAnnotations /\ [][NextSidebar]_vars

\* the step runs the height callback of call k: at the leading edge of a height
\* change or at the trailing edge of the wait interval
RunsCallback(k) ==
    \/ HeightChange(k) /\ k \notin annotations.timers
    \/ TimerExpires(k) /\ k \in annotations.trailing

\* removeAnnotationListener has returned and no later createAnnotationListener
\* call was made: only removeAnnotationListener takes a listener out of attached,
\* and it takes out the one in listenerRef
Removed ==
    /\ annotations.created > 0
    /\ annotations.listenerRef \notin annotations.attached

\* C25: once removeAnnotationListener has returned, with no observer left
\* observing, the throttled height callback never runs again and no
\* changedDisplayOffset message is posted, also when a trailing call of the
\* throttle was pending at the moment of the removal.
C25_NoCallbackAfterRemove ==
    [][(Removed /\ annotations.observing = {})
          => /\ annotations'.posts = annotations.posts
             /\ \A k \in 1..annotations.created : ~RunsCallback(k)]_vars

\* C26: a height callback that runs after its sidebar iframe was torn down posts
\* no message and stops the observation that its own createAnnotationListener
\* call started.
C26_TornCallbackUnobservesItself ==
    [][\A k \in annotations.torn :
          RunsCallback(k) => /\ annotations'.posts = annotations.posts
                             /\ k \notin annotations'.observing]_vars

\* C28: the first message event handled after the teardown of a listener's iframe
\* takes that listener out of the window's message listeners, and the listener
\* works on no event after the teardown.
C28_TornListenerDetachesItself ==
    [][DispatchMessage =>
          \A k \in annotations.attached \cap annotations.torn :
             /\ k \notin annotations'.attached
             /\ k \notin annotations'.processed]_vars

\* the part of C28 that holds: a listener never works on an event once its iframe
\* is torn down
TornListenerIgnoresEvents ==
    [][DispatchMessage =>
          annotations'.processed \cap annotations.torn = {}]_vars

-----------------------------------------------------------------------------
(* The page view toggle (content.js).  inbox holds the runtime messages sent  *)
(* to the content script and not yet handled, pageview says whether           *)
(* document.body carries the class pageview, patched whether the document is  *)
(* patched, sidebars counts the iframes with the id                           *)
(* lindylearn-annotations-sidebar, toggles the togglePageView handlers that   *)
(* ran, and errored says whether one of them threw.                           *)

MaxToggles == 5

RuntimeEvents == {"togglePageView", "other"}

\* ./pageview/patching (line 3): the document is patched
patchDocument(p) == [p EXCEPT !.patched = TRUE]

\* ./pageview/patching (line 3): the patch is taken back
unPatchDocument(p) == [p EXCEPT !.patched = FALSE]

\* lines 25-34: one more iframe with the sidebar id is appended to the body
injectSidebar(p) == [p EXCEPT !.sidebars = @ + 1]

\* faulty variant: the sidebar iframe stays in the document
destroySidebar_Keeps(p) == p

\* lines 36-41: the first element with the sidebar id is removed from its parent
destroySidebar(p) == [p EXCEPT !.sidebars = @ - 1]

\* lines 11-23: without the class the document is patched, the sidebar injected
\* and the class added; with it the patch is taken back, the sidebar destroyed
\* and the class removed.  getElementById yields null when there is no sidebar:
\* line 40 throws and line 21 is not reached
togglePageView(p) ==
    IF ~p.pageview
    THEN [injectSidebar(patchDocument(p)) EXCEPT !.pageview = TRUE]
    ELSE IF p.sidebars = 0
         THEN [unPatchDocument(p) EXCEPT !.errored = TRUE]
         ELSE [destroySidebar(unPatchDocument(p)) EXCEPT !.pageview = FALSE]

\* the background sends the runtime message e to the content script
SendRuntimeMessage(e) ==
    /\ page.toggles + Len(page.inbox) < MaxToggles
    /\ page' = [page EXCEPT !.inbox = Append(@, e)]
    /\ UNCHANGED <<domVars, cssVars, suspended, call, alone, messages, annotations>>

\* lines 5-9: the listener takes the next message and calls togglePageView for
\* the togglePageView event; the function has no await and runs to its end
onMessage ==
    /\ page.inbox # <<>>
    /\ LET e == Head(page.inbox)
           p == [page EXCEPT !.inbox = Tail(@)]
       IN  page' = IF e = "togglePageView"
                   THEN togglePageView([p EXCEPT !.toggles = @ + 1])
                   ELSE p
    /\ UNCHANGED <<domVars, cssVars, suspended, call, alone, messages, annotations>>

\* the page's own markup may already give the body the class pageview
InitToggle ==
    /\ PageIdle
    /\ NoConcurrency
    /\ NoMessages
    /\ NoAnnotations
    /\ \E c \in BOOLEAN :
          page = [inbox |-> <<>>, pageview |-> c, patched |-> FALSE,
                  sidebars |-> 0, toggles |-> 0, errored |-> FALSE]

NextToggle ==
    \/ \E e \in RuntimeEvents : SendRuntimeMessage(e)
    \/ onMessage

SpecToggle == InitToggle /\ [][NextToggle]_vars

\* C29: after togglePageView messages whose handlers all completed without
\* error, the body carries the class pageview exactly if the document is patched
\* and exactly one sidebar iframe exists; an even number of toggles leaves the
\* document unpatched and without sidebar; and there are never two sidebar
\* iframes.
C29_ToggleInvariant ==
    /\ page.sidebars <= 1
    /\ (page.toggles > 0 /\ ~page.errored)
          => /\ page.pageview <=> (page.patched /\ page.sidebars = 1)
             /\ page.toggles % 2 = 0 => (~page.patched /\ page.sidebars = 0)

C29_Witness ==
    /\ page.toggles = 3
    /\ ~page.errored
    /\ page.inbox = <<>>
    /\ page.pageview /\ page.patched /\ page.sidebars = 1

=============================================================================
